---------------------------- MODULE Spec2Model ----------------------------
(***************************************************************************)
(* A model of the logic engine of types-app: the formula kernel, the       *)
(* arithmetic decider, the tactic engine and the proof state kept in the    *)
(* store, the function evaluator with its termination checker, the         *)
(* syntax-directedness analysis and the backward derivation search.        *)
(*                                                                         *)
(* Values of the tagged unions of the source (FormulaExpr, Formula,        *)
(* FuncExpr, Pattern, Term, Tactic) are records that carry the source's    *)
(* field names.  A JavaScript null is the record Null; a number | null is   *)
(* a record [ok, v].                                                       *)
(***************************************************************************)
EXTENDS Integers, Sequences, FiniteSets, TLC

VARIABLES
    proofs,      \* store.proofs: ProofId -> Proof
    result,      \* the TacticResult returned by the last store.applyTactic
    nextId,      \* the number of ids drawn from uuidv4 so far
    arithIn,     \* input of the arithmetic decider: [left, right, hypotheses, cmp]
    arithOut,    \* its answers
    evalIn,      \* input of evaluateFunc: [functions, funcId, term]
    evalStack,   \* the evaluator's call stack: frames [funcId, term, env, pending]
    evalStatus,  \* "idle" | "running" | "done" | "overflow"
    sdIn,        \* input of analyzesSyntaxDirected: a sequence of rules
    sdOut,       \* its answer
    drvIn,       \* input of buildDerivation: [judgmentId, terms]
    drvOut,      \* its answer
    matchIn,     \* input of matchPattern: [term, pattern]
    matchOut,    \* its answer
    store,       \* the registry maps of the store: sorts, constructors, ...
    storeIds,    \* the number of ids the registry operations have drawn
    storeOps,    \* the number of registry operations called so far
    storeLast,   \* the last registry operation called: [op, arg]
    tacIn,       \* input of applyTactic: [goal, tactic]
    tacOut,      \* its TacticResult
    lastCall,    \* the last store.applyTactic call: [proofId, goalId, tactic]
    fnIn,        \* arguments of the pure function called: a record
    fnOut        \* what it returned

proofVars == <<proofs, result, nextId>>
arithVars == <<arithIn, arithOut>>
evalVars  == <<evalIn, evalStack, evalStatus>>
sdVars    == <<sdIn, sdOut>>
drvVars   == <<drvIn, drvOut>>
vars == <<proofs, result, nextId, arithIn, arithOut, evalIn, evalStack,
          evalStatus,
          sdIn, sdOut, drvIn, drvOut, matchIn, matchOut,
          store, storeIds, storeOps, storeLast, tacIn, tacOut, lastCall,
          fnIn, fnOut>>

Null == [kind |-> "null"]

\* the variables of the operations modelled further down, and their state
\* before any of those operations is called
matchVars == <<matchIn, matchOut>>
storeVars == <<store, storeIds, storeOps, storeLast>>
tacVars == <<tacIn, tacOut, lastCall>>
fnVars == <<fnIn, fnOut>>
restVars == <<matchVars, storeVars, tacVars, fnVars>>
MatchIdle == matchIn = Null /\ matchOut = Null
StoreIdle == store = Null /\ storeIds = 0 /\ storeOps = 0 /\ storeLast = Null
TacIdle == tacIn = Null /\ tacOut = Null /\ lastCall = Null
FnIdle == fnIn = Null /\ fnOut = Null
RestIdle == MatchIdle /\ StoreIdle /\ TacIdle /\ FnIdle
NoNum == [ok |-> FALSE, v |-> 0]
Num(n) == [ok |-> TRUE, v |-> n]

Max2(a, b) == IF a >= b THEN a ELSE b
Min2(a, b) == IF a <= b THEN a ELSE b
SeqRange(s) == {s[i] : i \in 1..Len(s)}

(***************************************************************************)
(* The metamodel snapshot the engines are called with: the Peano example   *)
(* of initializeWithExamples, a binary tree sort whose constructor         *)
(* arguments carry no label, an atom sort and an inductive sort without    *)
(* constructors.  A Map of the source is a sequence in insertion order.    *)
(***************************************************************************)
sorts ==
    << [id |-> "nat",  kind |-> "inductive"],
       [id |-> "tree", kind |-> "inductive"],
       [id |-> "var",  kind |-> "atom"],
       [id |-> "void", kind |-> "inductive"] >>

constructors ==
    << [id |-> "Z",    sortId |-> "nat",  name |-> "Z",    args |-> <<>>],
       [id |-> "S",    sortId |-> "nat",  name |-> "S",
            args |-> << [sortId |-> "nat", label |-> "n"] >>],
       [id |-> "Leaf", sortId |-> "tree", name |-> "Leaf", args |-> <<>>],
       [id |-> "Node", sortId |-> "tree", name |-> "Node",
            args |-> << [sortId |-> "tree", label |-> ""],
                        [sortId |-> "tree", label |-> ""] >>] >>

\* Map.get on a sequence of records keyed by id, Null when absent
MapGet(m, id) ==
    IF \E i \in 1..Len(m) : m[i].id = id
    THEN m[CHOOSE i \in 1..Len(m) : m[i].id = id]
    ELSE Null

(***************************************************************************)
(* FormulaExpr and Formula constructors                                    *)
(***************************************************************************)
EVar(n)        == [kind |-> "var", name |-> n]
ECon(c, as)    == [kind |-> "constructor", constructorId |-> c, args |-> as]
EApp(f, a)     == [kind |-> "funcApp", funcId |-> f, arg |-> a]
EInt(v)        == [kind |-> "int", value |-> v]
EBin(k, l, r)  == [kind |-> k, left |-> l, right |-> r]

ArithKinds == {"add", "sub", "mul", "max", "min"}
NumCmpKinds == {"numEq", "numNeq", "numLeq", "numLt", "numGeq", "numGt"}

FForall(x, s, b) == [kind |-> "forall", varName |-> x, sortId |-> s, body |-> b]
FExists(x, s, b) == [kind |-> "exists", varName |-> x, sortId |-> s, body |-> b]
FBin(k, l, r)    == [kind |-> k, left |-> l, right |-> r]
FTrue            == [kind |-> "true"]
FFalse           == [kind |-> "false"]

(***************************************************************************)
(* Substitution                                                            *)
(***************************************************************************)
RECURSIVE substituteFormulaExpr(_, _, _)
substituteFormulaExpr(expr, varName, replacement) ==
    CASE expr.kind = "var" ->
            IF expr.name = varName THEN replacement ELSE expr
      [] expr.kind = "constructor" ->
            [expr EXCEPT !.args =
                [i \in 1..Len(expr.args) |->
                    substituteFormulaExpr(expr.args[i], varName, replacement)]]
      [] expr.kind = "funcApp" ->
            [expr EXCEPT !.arg = substituteFormulaExpr(expr.arg, varName, replacement)]
      [] expr.kind \in ArithKinds ->
            [kind |-> expr.kind,
             left |-> substituteFormulaExpr(expr.left, varName, replacement),
             right |-> substituteFormulaExpr(expr.right, varName, replacement)]
      [] OTHER -> expr

RECURSIVE substituteFormula(_, _, _)
substituteFormula(formula, varName, replacement) ==
    CASE formula.kind \in {"forall", "exists"} ->
            IF formula.varName = varName THEN formula
            ELSE [formula EXCEPT !.body = substituteFormula(formula.body, varName, replacement)]
      [] formula.kind \in {"implies", "and", "or"} ->
            [kind |-> formula.kind,
             left |-> substituteFormula(formula.left, varName, replacement),
             right |-> substituteFormula(formula.right, varName, replacement)]
      [] formula.kind = "not" ->
            [kind |-> "not", body |-> substituteFormula(formula.body, varName, replacement)]
      [] formula.kind \in {"termEq", "termNeq"} \cup NumCmpKinds ->
            [kind |-> formula.kind,
             left |-> substituteFormulaExpr(formula.left, varName, replacement),
             right |-> substituteFormulaExpr(formula.right, varName, replacement)]
      [] OTHER -> formula

(***************************************************************************)
(* Syntactic equality.  formulaExprEqual and formulaEqual compare kind and *)
(* every field of the two values recursively, which on these records is    *)
(* equality of the records.                                                *)
(***************************************************************************)
formulaExprEqual(a, b) == a = b
formulaEqual(a, b) == a = b

(***************************************************************************)
(* Arithmetic evaluation and simplification                                *)
(***************************************************************************)
ArithOp(kind, l, r) ==
    CASE kind = "add" -> l + r
      [] kind = "sub" -> l - r
      [] kind = "mul" -> l * r
      [] kind = "max" -> Max2(l, r)
      [] kind = "min" -> Min2(l, r)

RECURSIVE evalExprToNumber(_)
evalExprToNumber(expr) ==
    CASE expr.kind = "int" -> Num(expr.value)
      [] expr.kind \in ArithKinds ->
            LET l == evalExprToNumber(expr.left)
                r == evalExprToNumber(expr.right)
            IN  IF l.ok /\ r.ok THEN Num(ArithOp(expr.kind, l.v, r.v)) ELSE NoNum
      [] OTHER -> NoNum

IsIntLit(e, n) == e.kind = "int" /\ e.value = n

RECURSIVE simplifyExpr(_)
\* simplifyExpr testing x - x, max(x, x) and min(x, x) on the operands as
\* given, before they are simplified
simplifyExprRawOperands(expr) ==
    LET val == evalExprToNumber(expr) IN
    IF val.ok THEN EInt(val.v)
    ELSE IF expr.kind \in ArithKinds
    THEN IF expr.kind = "sub" /\ formulaExprEqual(expr.left, expr.right) THEN EInt(0)
         ELSE IF expr.kind \in {"max", "min"} /\ formulaExprEqual(expr.left, expr.right)
         THEN simplifyExpr(expr.left)
         ELSE EBin(expr.kind, simplifyExpr(expr.left), simplifyExpr(expr.right))
    ELSE expr

simplifyExpr(expr) ==
    LET val == evalExprToNumber(expr) IN
    IF val.ok THEN EInt(val.v)
    ELSE
    CASE expr.kind \in ArithKinds ->
            LET left  == simplifyExpr(expr.left)
                right == simplifyExpr(expr.right)
                lv == evalExprToNumber(left)
                rv == evalExprToNumber(right)
                folded == IF lv.ok /\ rv.ok
                          THEN EInt(ArithOp(expr.kind, lv.v, rv.v))
                          ELSE EBin(expr.kind, left, right)
            IN  (CASE expr.kind = "add" ->
                        IF IsIntLit(left, 0) THEN right
                        ELSE IF IsIntLit(right, 0) THEN left
                        ELSE folded
                  [] expr.kind = "sub" ->
                        IF IsIntLit(right, 0) THEN left
                        ELSE IF formulaExprEqual(left, right) THEN EInt(0)
                        ELSE folded
                  [] expr.kind = "mul" ->
                        IF IsIntLit(left, 0) \/ IsIntLit(right, 0) THEN EInt(0)
                        ELSE IF IsIntLit(left, 1) THEN right
                        ELSE IF IsIntLit(right, 1) THEN left
                        ELSE folded
                  [] expr.kind \in {"max", "min"} ->
                        IF formulaExprEqual(left, right) THEN left
                        ELSE folded)
      [] expr.kind = "funcApp" ->
            [kind |-> "funcApp", funcId |-> expr.funcId, arg |-> simplifyExpr(expr.arg)]
      [] expr.kind = "constructor" ->
            [kind |-> "constructor", constructorId |-> expr.constructorId,
             args |-> [i \in 1..Len(expr.args) |-> simplifyExpr(expr.args[i])]]
      [] OTHER -> expr

(***************************************************************************)
(* The linear-arithmetic decider.  hypotheses is a sequence of             *)
(* ProofHypothesis records [id, name, formula].                            *)
(***************************************************************************)
\* the loop over the hypotheses at the head of isNonNegative
NonNegByHyp(expr, hypotheses) ==
    \E i \in 1..Len(hypotheses) :
        LET f == hypotheses[i].formula IN
        \/ /\ f.kind = "numGeq"
           /\ formulaExprEqual(f.left, expr)
           /\ LET rv == evalExprToNumber(f.right) IN rv.ok /\ rv.v <= 0
        \/ /\ f.kind = "numGt"
           /\ formulaExprEqual(f.left, expr)
           /\ LET rv == evalExprToNumber(f.right) IN rv.ok /\ rv.v < 0

RECURSIVE isNonNegative(_, _)
isNonNegative(expr, hypotheses) ==
    LET val == evalExprToNumber(expr) IN
    IF val.ok THEN val.v >= 0
    ELSE IF NonNegByHyp(expr, hypotheses) THEN TRUE
    ELSE CASE expr.kind \in {"add", "mul", "min"} ->
                 isNonNegative(expr.left, hypotheses) /\ isNonNegative(expr.right, hypotheses)
           [] expr.kind = "max" ->
                 isNonNegative(expr.left, hypotheses) \/ isNonNegative(expr.right, hypotheses)
           [] OTHER -> FALSE

\* the loop over the hypotheses at the head of isPositive
PosByHyp(expr, hypotheses) ==
    \E i \in 1..Len(hypotheses) :
        LET f == hypotheses[i].formula IN
        \/ /\ f.kind = "numGt"
           /\ formulaExprEqual(f.left, expr)
           /\ LET rv == evalExprToNumber(f.right) IN rv.ok /\ rv.v >= 0
        \/ /\ f.kind = "numGeq"
           /\ formulaExprEqual(f.left, expr)
           /\ LET rv == evalExprToNumber(f.right) IN rv.ok /\ rv.v > 0

RECURSIVE isPositive(_, _)
isPositive(expr, hypotheses) ==
    LET val == evalExprToNumber(expr) IN
    IF val.ok THEN val.v > 0
    ELSE IF PosByHyp(expr, hypotheses) THEN TRUE
    ELSE IF expr.kind = "add"
         THEN \/ isPositive(expr.left, hypotheses) /\ isNonNegative(expr.right, hypotheses)
              \/ isNonNegative(expr.left, hypotheses) /\ isPositive(expr.right, hypotheses)
         ELSE FALSE

\* the loop over the hypotheses at the head of canProveGeq
GeqByHyp(left, right, hypotheses) ==
    \E i \in 1..Len(hypotheses) :
        LET f == hypotheses[i].formula IN
        /\ f.kind \in {"numGeq", "numGt"}
        /\ formulaExprEqual(f.left, left)
        /\ formulaExprEqual(f.right, right)

RECURSIVE canProveGeq(_, _, _)
canProveGeq(left, right, hypotheses) ==
    LET lv == evalExprToNumber(left)
        rv == evalExprToNumber(right)
    IN  IF GeqByHyp(left, right, hypotheses) THEN TRUE
        ELSE IF formulaExprEqual(left, right) THEN TRUE
        ELSE IF lv.ok /\ rv.ok THEN lv.v >= rv.v
        ELSE IF rv.ok /\ rv.v = 0 THEN isNonNegative(left, hypotheses)
        ELSE IF left.kind = "add"
             THEN \/ /\ canProveGeq(left.left, right, hypotheses)
                     /\ isNonNegative(left.right, hypotheses)
                  \/ /\ canProveGeq(left.right, right, hypotheses)
                     /\ isNonNegative(left.left, hypotheses)
             ELSE FALSE

\* SimplifyResult: [solved, newFormula]; an absent newFormula is Null
Solved == [solved |-> TRUE, newFormula |-> Null]
Unsolved(f) == [solved |-> FALSE, newFormula |-> f]

tryLinearArithmetic(formula, hypotheses) ==
    CASE formula.kind = "numGeq" ->
            IF canProveGeq(formula.left, formula.right, hypotheses)
            THEN Solved ELSE Unsolved(Null)
      [] formula.kind = "numGt" ->
            LET rv == evalExprToNumber(formula.right) IN
            IF rv.ok /\ rv.v = 0 /\ isPositive(formula.left, hypotheses)
            THEN Solved ELSE Unsolved(Null)
      [] formula.kind = "numLeq" ->
            IF canProveGeq(formula.right, formula.left, hypotheses)
            THEN Solved ELSE Unsolved(Null)
      [] formula.kind = "numLt" ->
            LET lv == evalExprToNumber(formula.left) IN
            IF lv.ok /\ lv.v = 0 /\ isPositive(formula.right, hypotheses)
            THEN Solved ELSE Unsolved(Null)
      [] OTHER -> Unsolved(Null)

NumCmp(kind, l, r) ==
    CASE kind = "numEq"  -> l = r
      [] kind = "numNeq" -> l # r
      [] kind = "numLeq" -> l <= r
      [] kind = "numLt"  -> l < r
      [] kind = "numGeq" -> l >= r
      [] kind = "numGt"  -> l > r

\* boolean | null as "true" | "false" | "null"
checkTrivialComparison(left, right, kind) ==
    LET lv == evalExprToNumber(left)
        rv == evalExprToNumber(right)
    IN  IF lv.ok /\ rv.ok
        THEN (IF NumCmp(kind, lv.v, rv.v) THEN "true" ELSE "false")
        ELSE IF formulaExprEqual(left, right)
             THEN (IF kind \in {"numEq", "numLeq", "numGeq"} THEN "true" ELSE "false")
             ELSE "null"

RECURSIVE simplifyFormula(_)
simplifyFormula(formula) ==
    CASE formula.kind = "true" -> Solved
      [] formula.kind = "false" -> Unsolved(formula)
      [] formula.kind \in NumCmpKinds ->
            LET left  == simplifyExpr(formula.left)
                right == simplifyExpr(formula.right)
                trivial == checkTrivialComparison(left, right, formula.kind)
            IN  IF trivial = "true" THEN Solved
                ELSE IF trivial = "false" THEN Unsolved(FFalse)
                ELSE IF ~formulaExprEqual(left, formula.left)
                        \/ ~formulaExprEqual(right, formula.right)
                     THEN Unsolved([kind |-> formula.kind, left |-> left, right |-> right])
                     ELSE Unsolved(formula)
      [] formula.kind = "and" ->
            LET leftResult  == simplifyFormula(formula.left)
                rightResult == simplifyFormula(formula.right)
            IN  IF leftResult.solved /\ rightResult.solved THEN Solved
                ELSE IF leftResult.solved
                     THEN Unsolved(IF rightResult.newFormula # Null
                                   THEN rightResult.newFormula ELSE formula.right)
                ELSE IF rightResult.solved
                     THEN Unsolved(IF leftResult.newFormula # Null
                                   THEN leftResult.newFormula ELSE formula.left)
                ELSE Unsolved(formula)
      [] formula.kind = "or" ->
            IF simplifyFormula(formula.left).solved \/ simplifyFormula(formula.right).solved
            THEN Solved ELSE Unsolved(formula)
      [] formula.kind = "implies" ->
            IF simplifyFormula(formula.right).solved THEN Solved ELSE Unsolved(formula)
      [] OTHER -> Unsolved(formula)

(***************************************************************************)
(* FuncExpr constructors and the size function of initializeWithExamples   *)
(***************************************************************************)
XInt(v)        == [kind |-> "int", value |-> v]
XVar(n)        == [kind |-> "var", name |-> n]
XCall(f, a)    == [kind |-> "call", funcId |-> f, arg |-> a]
XCallMulti(f, as) == [kind |-> "callMulti", funcId |-> f, args |-> as]
XBin(k, l, r)  == [kind |-> k, left |-> l, right |-> r]

sizeFunc ==
    [id |-> "size", inputSortId |-> "nat", extraArgs |-> <<>>,
     cases |-> << [constructorId |-> "Z", boundVars |-> <<>>, body |-> XInt(0)],
                  [constructorId |-> "S", boundVars |-> <<"n">>,
                   body |-> XBin("add", XInt(1), XCall("size", XVar("n")))] >>]

recursiveFunctions == << sizeFunc >>

(***************************************************************************)
(* Function unfolding                                                      *)
(***************************************************************************)
\* Map<string, FormulaExpr> | null: a function from names, or Null
matchAgainstConstructor(expr, constructorId, boundVars) ==
    IF expr.kind # "constructor" THEN Null
    ELSE IF expr.constructorId # constructorId THEN Null
    ELSE IF MapGet(constructors, constructorId) = Null THEN Null
    ELSE IF Len(expr.args) # Len(boundVars) THEN Null
    ELSE [kind |-> "bindings",
          map |-> [v \in SeqRange(boundVars) |->
                      \* a later bindings.set of the same name overwrites
                      expr.args[CHOOSE i \in 1..Len(boundVars) :
                                    /\ boundVars[i] = v
                                    /\ \A j \in (i+1)..Len(boundVars) : boundVars[j] # v]]]

RECURSIVE funcExprToFormulaExpr(_, _)
funcExprToFormulaExpr(expr, bindings) ==
    CASE expr.kind = "int" -> EInt(expr.value)
      [] expr.kind = "var" ->
            IF expr.name \in DOMAIN bindings THEN bindings[expr.name] ELSE EVar(expr.name)
      [] expr.kind = "call" ->
            EApp(expr.funcId, funcExprToFormulaExpr(expr.arg, bindings))
      [] expr.kind \in {"add", "sub"} ->
            EBin(expr.kind, funcExprToFormulaExpr(expr.left, bindings),
                            funcExprToFormulaExpr(expr.right, bindings))
      [] expr.kind = "empty" -> [kind |-> "emptySet"]
      [] OTHER -> EInt(0)

\* the first case of targetFunc whose constructor pattern matches arg
RECURSIVE FirstMatchingCase(_, _)
FirstMatchingCase(cases, arg) ==
    IF cases = <<>> THEN Null
    ELSE LET bindings == matchAgainstConstructor(arg, Head(cases).constructorId,
                                                 Head(cases).boundVars)
         IN  IF bindings # Null
             THEN funcExprToFormulaExpr(Head(cases).body, bindings.map)
             ELSE FirstMatchingCase(Tail(cases), arg)

RECURSIVE unfoldFuncApp(_, _)
RECURSIVE UnfoldFirstArg(_, _, _)
\* the loop over a constructor's arguments: the first argument that unfolds
UnfoldFirstArg(expr, targetFunc, i) ==
    IF i > Len(expr.args) THEN Null
    ELSE LET unfoldedArg == unfoldFuncApp(expr.args[i], targetFunc)
         IN  IF unfoldedArg # Null
             THEN [expr EXCEPT !.args = [expr.args EXCEPT ![i] = unfoldedArg]]
             ELSE UnfoldFirstArg(expr, targetFunc, i + 1)

unfoldFuncApp(expr, targetFunc) ==
    IF expr.kind = "funcApp" /\ expr.funcId = targetFunc.id
    THEN FirstMatchingCase(targetFunc.cases, expr.arg)
    ELSE CASE expr.kind \in {"add", "sub"} ->
                LET leftUnfold == unfoldFuncApp(expr.left, targetFunc) IN
                IF leftUnfold # Null THEN EBin(expr.kind, leftUnfold, expr.right)
                ELSE LET rightUnfold == unfoldFuncApp(expr.right, targetFunc) IN
                     IF rightUnfold # Null THEN EBin(expr.kind, expr.left, rightUnfold)
                     ELSE Null
           [] expr.kind = "funcApp" ->
                LET argUnfold == unfoldFuncApp(expr.arg, targetFunc) IN
                IF argUnfold # Null THEN EApp(expr.funcId, argUnfold) ELSE Null
           [] expr.kind = "constructor" -> UnfoldFirstArg(expr, targetFunc, 1)
           [] OTHER -> Null

(***************************************************************************)
(* The tactic engine.  applyTactic(goal, tactic, base) is the TacticResult *)
(* of the source's applyTactic when uuidv4 has been drawn base times: ids   *)
(* are the numbers base+1, base+2, ... in the order the source draws them,  *)
(* and a successful result says in `ids` how many it drew.                 *)
(***************************************************************************)
Failure(msg) == [success |-> FALSE, error |-> msg]
Success(goals, n) == [success |-> TRUE, newGoals |-> goals, ids |-> n]

Goal(id, variables, hypotheses, formula) ==
    [id |-> id,
     context |-> [variables |-> variables, hypotheses |-> hypotheses],
     goal |-> formula]

\* Array.prototype.find on the context: the first entry of that name, or Null
FindByName(s, name) ==
    IF \E i \in 1..Len(s) : s[i].name = name
    THEN s[CHOOSE i \in 1..Len(s) :
                /\ s[i].name = name
                /\ \A j \in 1..(i-1) : s[j].name # name]
    ELSE Null

\* `x${i}` for the 0-based argument index i
XName(i) == "x" \o ToString(i)

\* freshVars of a constructor: arg.label || `x${i}`
freshVars(c) ==
    [i \in 1..Len(c.args) |->
        [name |-> IF c.args[i].label # "" THEN c.args[i].label ELSE XName(i - 1),
         sortId |-> c.args[i].sortId]]

\* the positions of the arguments of c whose sort is sortId, in order
RecursiveArgs(c, sortId) ==
    SelectSeq([i \in 1..Len(c.args) |-> i], LAMBDA i : c.args[i].sortId = sortId)

\* the subgoal of induction (withIH) or case_analysis for constructor c
CaseGoal(goal, varName, sortId, c, withIH, base) ==
    LET fv == freshVars(c)
        constructorExpr == ECon(c.id, [i \in 1..Len(fv) |-> EVar(fv[i].name)])
        rec == IF withIH THEN RecursiveArgs(c, sortId) ELSE <<>>
        inductionHypotheses ==
            [k \in 1..Len(rec) |->
                [id |-> base + k,
                 name |-> "IH_" \o fv[rec[k]].name,
                 formula |-> substituteFormula(goal.goal, varName, EVar(fv[rec[k]].name))]]
        NotInducted(v) == v.name # varName
    IN  Goal(base + Len(rec) + 1,
             SelectSeq(goal.context.variables, NotInducted) \o fv,
             goal.context.hypotheses \o inductionHypotheses,
             substituteFormula(goal.goal, varName, constructorExpr))

IdsOfCase(sortId, c, withIH) ==
    (IF withIH THEN Len(RecursiveArgs(c, sortId)) ELSE 0) + 1

\* sortConstructors.map(...): one subgoal per constructor, in registry order
RECURSIVE CaseGoals(_, _, _, _, _, _)
CaseGoals(goal, varName, sortId, cs, withIH, base) ==
    IF cs = <<>> THEN <<>>
    ELSE <<CaseGoal(goal, varName, sortId, Head(cs), withIH, base)>>
         \o CaseGoals(goal, varName, sortId, Tail(cs), withIH,
                      base + IdsOfCase(sortId, Head(cs), withIH))

RECURSIVE SumIds(_, _, _)
SumIds(sortId, cs, withIH) ==
    IF cs = <<>> THEN 0
    ELSE IdsOfCase(sortId, Head(cs), withIH) + SumIds(sortId, Tail(cs), withIH)

ConstructorsOfSort(sortId) ==
    SelectSeq(constructors, LAMBDA c : c.sortId = sortId)

tacticIntro(goal, tactic, base) ==
    LET formula == goal.goal
        context == goal.context
    IN  IF formula.kind # "forall" THEN Failure("intro requires a forall goal")
        ELSE LET varName == IF tactic.varName # "" THEN tactic.varName ELSE formula.varName IN
             IF \E i \in 1..Len(context.variables) : context.variables[i].name = varName
             THEN Failure("Variable already in context")
             ELSE Success(<< Goal(base + 1,
                                  Append(context.variables,
                                         [name |-> varName, sortId |-> formula.sortId]),
                                  context.hypotheses,
                                  IF varName = formula.varName THEN formula.body
                                  ELSE substituteFormula(formula.body, formula.varName,
                                                         EVar(varName))) >>, 1)

tacticIntroHyp(goal, tactic, base) ==
    LET formula == goal.goal
        context == goal.context
    IN  IF formula.kind # "implies" THEN Failure("intro_hyp requires an implies goal")
        ELSE LET hypName == IF tactic.hypName # "" THEN tactic.hypName
                            ELSE "H" \o ToString(Len(context.hypotheses)) IN
             IF \E i \in 1..Len(context.hypotheses) : context.hypotheses[i].name = hypName
             THEN Failure("Hypothesis already in context")
             ELSE Success(<< Goal(base + 1,
                                  context.variables,
                                  Append(context.hypotheses,
                                         [id |-> base + 2, name |-> hypName,
                                          formula |-> formula.left]),
                                  formula.right) >>, 2)

tacticInduction(goal, tactic, base) ==
    LET context == goal.context
        varInfo == FindByName(context.variables, tactic.varName)
    IN  IF varInfo = Null THEN Failure("Variable not in context")
        ELSE LET sort == MapGet(sorts, varInfo.sortId) IN
             IF sort = Null \/ sort.kind # "inductive"
             THEN Failure("Cannot do induction: not an inductive type")
             ELSE LET sortConstructors == ConstructorsOfSort(varInfo.sortId) IN
                  IF Len(sortConstructors) = 0
                  THEN Failure("No constructors found for sort")
                  ELSE Success(CaseGoals(goal, tactic.varName, varInfo.sortId,
                                         sortConstructors, TRUE, base),
                               SumIds(varInfo.sortId, sortConstructors, TRUE))

tacticCaseAnalysis(goal, tactic, base) ==
    LET context == goal.context
        varInfo == FindByName(context.variables, tactic.varName)
    IN  IF varInfo = Null THEN Failure("Variable not in context")
        ELSE LET sort == MapGet(sorts, varInfo.sortId) IN
             IF sort = Null \/ sort.kind # "inductive"
             THEN Failure("Cannot do case analysis: not an inductive type")
             ELSE LET sortConstructors == ConstructorsOfSort(varInfo.sortId) IN
                  Success(CaseGoals(goal, tactic.varName, varInfo.sortId,
                                    sortConstructors, FALSE, base),
                          SumIds(varInfo.sortId, sortConstructors, FALSE))

tacticReflexivity(goal) ==
    LET f == goal.goal IN
    IF f.kind \notin {"termEq", "numEq", "numLeq", "numGeq"}
    THEN Failure("reflexivity requires =, <=, or >= goal")
    ELSE IF ~formulaExprEqual(f.left, f.right)
         THEN IF formulaExprEqual(simplifyExpr(f.left), simplifyExpr(f.right))
              THEN Success(<<>>, 0)
              ELSE Failure("Terms are not equal")
         ELSE Success(<<>>, 0)

tacticTrivial(goal) ==
    IF goal.goal.kind = "true" THEN Success(<<>>, 0)
    ELSE IF \E i \in 1..Len(goal.context.hypotheses) :
                formulaEqual(goal.context.hypotheses[i].formula, goal.goal)
         THEN Success(<<>>, 0)
         ELSE Failure("Goal is not trivially true")

tacticExact(goal, tactic) ==
    LET hyp == FindByName(goal.context.hypotheses, tactic.hypName) IN
    IF hyp = Null THEN Failure("Hypothesis not found")
    ELSE IF ~formulaEqual(hyp.formula, goal.goal)
         THEN Failure("Hypothesis does not match goal")
         ELSE Success(<<>>, 0)

tacticDiscriminate(goal, tactic) ==
    LET hyp == FindByName(goal.context.hypotheses, tactic.hypName) IN
    IF hyp = Null THEN Failure("Hypothesis not found")
    ELSE IF hyp.formula.kind # "termEq" THEN Failure("Hypothesis is not an equality")
    ELSE IF /\ hyp.formula.left.kind = "constructor"
            /\ hyp.formula.right.kind = "constructor"
            /\ hyp.formula.left.constructorId # hyp.formula.right.constructorId
         THEN Success(<<>>, 0)
         ELSE Failure("Cannot discriminate: constructors are not different")

tacticApply(goal, tactic, base) ==
    LET hyp == FindByName(goal.context.hypotheses, tactic.hypName) IN
    IF hyp = Null THEN Failure("Hypothesis not found")
    ELSE IF hyp.formula.kind = "implies" /\ formulaEqual(hyp.formula.right, goal.goal)
         THEN Success(<< [goal EXCEPT !.id = base + 1, !.goal = hyp.formula.left] >>, 1)
    ELSE IF hyp.formula.kind = "forall"
         THEN Failure("Direct application of forall hypotheses not yet supported")
         ELSE Failure("Cannot apply to this goal")

tacticUnfold(goal, tactic, base) ==
    LET formula == goal.goal
        func == MapGet(recursiveFunctions, tactic.funcId)
    IN  IF func = Null THEN Failure("Function not found")
        ELSE IF formula.kind \notin NumCmpKinds \cup {"termEq", "termNeq"}
             THEN Failure("Unfold only works on equality/comparison goals")
        ELSE LET expr == IF tactic.side = "left" THEN formula.left ELSE formula.right
                 unfoldedExpr == unfoldFuncApp(expr, func)
             IN  IF unfoldedExpr = Null
                 THEN Failure("Could not unfold - no matching case found")
                 ELSE Success(<< [goal EXCEPT
                                    !.id = base + 1,
                                    !.goal = IF tactic.side = "left"
                                             THEN [formula EXCEPT !.left = unfoldedExpr]
                                             ELSE [formula EXCEPT !.right = unfoldedExpr]] >>,
                              1)

tacticSimplify(goal, base) ==
    LET formula == goal.goal IN
    IF tryLinearArithmetic(formula, goal.context.hypotheses).solved THEN Success(<<>>, 0)
    ELSE LET simplified == simplifyFormula(formula) IN
         IF simplified.solved THEN Success(<<>>, 0)
         ELSE IF simplified.newFormula # Null /\ ~formulaEqual(simplified.newFormula, formula)
              THEN Success(<< [goal EXCEPT !.id = base + 1,
                                           !.goal = simplified.newFormula] >>, 1)
              ELSE Failure("Cannot simplify further")

applyTactic(goal, tactic, base) ==
    LET formula == goal.goal
        context == goal.context
    IN
    CASE tactic.kind = "intro" -> tacticIntro(goal, tactic, base)
      [] tactic.kind = "intro_hyp" -> tacticIntroHyp(goal, tactic, base)
      [] tactic.kind = "exists_witness" ->
            IF formula.kind # "exists" THEN Failure("exists_witness requires an exists goal")
            ELSE Success(<< [goal EXCEPT
                               !.id = base + 1,
                               !.goal = substituteFormula(formula.body, formula.varName,
                                                          tactic.witness)] >>, 1)
      [] tactic.kind = "split" ->
            IF formula.kind # "and" THEN Failure("split requires an and goal")
            ELSE Success(<< [goal EXCEPT !.id = base + 1, !.goal = formula.left],
                            [goal EXCEPT !.id = base + 2, !.goal = formula.right] >>, 2)
      [] tactic.kind = "left" ->
            IF formula.kind # "or" THEN Failure("left requires an or goal")
            ELSE Success(<< [goal EXCEPT !.id = base + 1, !.goal = formula.left] >>, 1)
      [] tactic.kind = "right" ->
            IF formula.kind # "or" THEN Failure("right requires an or goal")
            ELSE Success(<< [goal EXCEPT !.id = base + 1, !.goal = formula.right] >>, 1)
      [] tactic.kind = "induction" -> tacticInduction(goal, tactic, base)
      [] tactic.kind = "reflexivity" -> tacticReflexivity(goal)
      [] tactic.kind = "trivial" -> tacticTrivial(goal)
      [] tactic.kind = "exact" -> tacticExact(goal, tactic)
      [] tactic.kind = "case_analysis" -> tacticCaseAnalysis(goal, tactic, base)
      [] tactic.kind = "discriminate" -> tacticDiscriminate(goal, tactic)
      [] tactic.kind = "apply" -> tacticApply(goal, tactic, base)
      [] tactic.kind = "unfold" -> tacticUnfold(goal, tactic, base)
      [] tactic.kind = "simplify" -> tacticSimplify(goal, base)
      [] OTHER -> Failure("Tactic not implemented")

(***************************************************************************)
(* Proof state                                                             *)
(***************************************************************************)
\* createProof when uuidv4 has been drawn base times
createProof(property, base) ==
    LET rootGoal == Goal(base + 1, <<>>, <<>>, property.formula) IN
    [id |-> base + 2,
     propertyId |-> property.id,
     goals |-> (rootGoal.id :> rootGoal),
     steps |-> <<>>,
     rootGoalId |-> rootGoal.id,
     openGoals |-> << rootGoal.id >>,
     status |-> "incomplete"]

\* SetAll leaving out the last of the new goals
SetAllButLast(goals, newGoals) ==
    IF newGoals = <<>> THEN goals
    ELSE [id \in DOMAIN goals \cup { newGoals[i].id : i \in 1..(Len(newGoals) - 1) } |->
             IF \E i \in 1..(Len(newGoals) - 1) : newGoals[i].id = id
             THEN newGoals[CHOOSE i \in 1..(Len(newGoals) - 1) : newGoals[i].id = id]
             ELSE goals[id]]

\* for (const newGoal of result.newGoals) newGoalsMap.set(newGoal.id, newGoal)
RECURSIVE SetAll(_, _)
SetAll(goals, newGoals) ==
    IF newGoals = <<>> THEN goals
    ELSE SetAll((Head(newGoals).id :> Head(newGoals)) @@ goals, Tail(newGoals))

GoalIds(newGoals) == [i \in 1..Len(newGoals) |-> newGoals[i].id]

\* applyTacticToProof that leaves the status field as it was
applyTacticToProofKeepStatus(proof, goalId, tactic, base) ==
    IF goalId \notin DOMAIN proof.goals
    THEN [proof |-> proof, result |-> Failure("Goal not found")]
    ELSE IF goalId \notin SeqRange(proof.openGoals)
    THEN [proof |-> proof, result |-> Failure("Goal already proved")]
    ELSE LET res == applyTactic(proof.goals[goalId], tactic, base) IN
         IF ~res.success THEN [proof |-> proof, result |-> res]
         ELSE [proof |-> [proof EXCEPT
                            !.goals = SetAll(proof.goals, res.newGoals),
                            !.steps = Append(proof.steps,
                                             [goalId |-> goalId, tactic |-> tactic,
                                              resultingGoals |-> GoalIds(res.newGoals)]),
                            !.openGoals =
                                SelectSeq(proof.openGoals, LAMBDA id : id # goalId)
                                \o GoalIds(res.newGoals)],
               result |-> res]

\* applyTacticToProof that logs a step for a tactic that failed
applyTacticToProofLogFailure(proof, goalId, tactic, base) ==
    IF goalId \notin DOMAIN proof.goals
    THEN [proof |-> proof, result |-> Failure("Goal not found")]
    ELSE IF goalId \notin SeqRange(proof.openGoals)
    THEN [proof |-> proof, result |-> Failure("Goal already proved")]
    ELSE LET res == applyTactic(proof.goals[goalId], tactic, base)
             ids == IF res.success THEN GoalIds(res.newGoals) ELSE <<>>
             step == [goalId |-> goalId, tactic |-> tactic, resultingGoals |-> ids]
         IN  IF ~res.success
             THEN [proof |-> [proof EXCEPT !.steps = Append(proof.steps, step)],
                   result |-> res]
             ELSE LET newOpenGoals ==
                          SelectSeq(proof.openGoals, LAMBDA id : id # goalId) \o ids
                  IN  [proof |-> [proof EXCEPT
                                    !.goals = SetAll(proof.goals, res.newGoals),
                                    !.steps = Append(proof.steps, step),
                                    !.openGoals = newOpenGoals,
                                    !.status = IF Len(newOpenGoals) = 0
                                               THEN "complete" ELSE "incomplete"],
                       result |-> res]

\* applyTacticToProof that puts the new goals in front of the open goals
applyTacticToProofPrepend(proof, goalId, tactic, base) ==
    IF goalId \notin DOMAIN proof.goals
    THEN [proof |-> proof, result |-> Failure("Goal not found")]
    ELSE IF goalId \notin SeqRange(proof.openGoals)
    THEN [proof |-> proof, result |-> Failure("Goal already proved")]
    ELSE LET res == applyTactic(proof.goals[goalId], tactic, base) IN
         IF ~res.success THEN [proof |-> proof, result |-> res]
         ELSE LET newOpenGoals ==
                      GoalIds(res.newGoals)
                      \o SelectSeq(proof.openGoals, LAMBDA id : id # goalId)
                  step == [goalId |-> goalId, tactic |-> tactic,
                           resultingGoals |-> GoalIds(res.newGoals)]
              IN  [proof |-> [proof EXCEPT
                                !.goals = SetAll(proof.goals, res.newGoals),
                                !.steps = Append(proof.steps, step),
                                !.openGoals = newOpenGoals,
                                !.status = IF Len(newOpenGoals) = 0
                                           THEN "complete" ELSE "incomplete"],
                   result |-> res]

\* recordStep putting the new step in front of the log
recordStepAtFront(proof, goalId, tactic, res, newOpenGoals) ==
    IF ~res.success THEN [proof |-> proof, result |-> res]
    ELSE [proof |-> [proof EXCEPT
                       !.goals = SetAll(proof.goals, res.newGoals),
                       !.steps = << [goalId |-> goalId, tactic |-> tactic,
                                     resultingGoals |-> GoalIds(res.newGoals)] >>
                                 \o proof.steps,
                       !.openGoals = newOpenGoals,
                       !.status = IF Len(newOpenGoals) = 0
                                  THEN "complete" ELSE "incomplete"],
          result |-> res]

\* the pair { proof, result } returned by applyTacticToProof
\* the success branch of applyTacticToProof: the goals, the step and the status
recordStep(proof, goalId, tactic, res, newOpenGoals) ==
    IF ~res.success THEN [proof |-> proof, result |-> res]
    ELSE [proof |-> [proof EXCEPT
                       !.goals = SetAll(proof.goals, res.newGoals),
                       !.steps = Append(proof.steps,
                                        [goalId |-> goalId, tactic |-> tactic,
                                         resultingGoals |-> GoalIds(res.newGoals)]),
                       !.openGoals = newOpenGoals,
                       !.status = IF Len(newOpenGoals) = 0
                                  THEN "complete" ELSE "incomplete"],
          result |-> res]

\* the new open goals when the goal acted on is left in the list
nextOpenGoalsKeepGoal(proof, goalId, res) ==
    IF ~res.success THEN proof.openGoals
    ELSE proof.openGoals \o GoalIds(res.newGoals)

\* openGoals.filter(id => id !== goalId).concat(newGoals.map(g => g.id))
nextOpenGoals(proof, goalId, res) ==
    IF ~res.success THEN proof.openGoals
    ELSE SelectSeq(proof.openGoals, LAMBDA id : id # goalId) \o GoalIds(res.newGoals)

applyTacticToProofWith(proof, goalId, tactic, res) ==
    recordStep(proof, goalId, tactic, res, nextOpenGoals(proof, goalId, res))

applyTacticToProof(proof, goalId, tactic, base) ==
    IF goalId \notin DOMAIN proof.goals
    THEN [proof |-> proof, result |-> Failure("Goal not found")]
    ELSE IF goalId \notin SeqRange(proof.openGoals)
    THEN [proof |-> proof, result |-> Failure("Goal already proved")]
    ELSE applyTacticToProofWith(proof, goalId, tactic,
                                applyTactic(proof.goals[goalId], tactic, base))

(***************************************************************************)
(* The store's proof operations                                            *)
(***************************************************************************)
\* the number of store operations that change the proofs in one behaviour
MaxOps == 4

nNat == EVar("n")
sizeOf(e) == EApp("size", e)

\* store.properties: the theorems a proof can be started for
properties ==
    << [id |-> "sizeNonNeg",
        formula |-> FForall("n", "nat", FBin("numGeq", sizeOf(EVar("n")), EInt(0)))],
       [id |-> "sumNonNeg",
        formula |-> FForall("n", "nat", FForall("m", "nat",
                      FBin("implies",
                           FBin("numGeq", sizeOf(EVar("m")), EInt(0)),
                           FBin("and",
                                FBin("numGeq", EBin("add", sizeOf(EVar("m")), EInt(0)), EInt(0)),
                                FBin("or", FTrue,
                                     FBin("termEq", EVar("n"), EVar("n")))))))],
       [id |-> "zeroExists",
        formula |-> FForall("t", "tree",
                      FExists("k", "nat", FBin("termEq", EVar("k"), ECon("Z", <<>>))))],
       [id |-> "treeRefl",
        formula |-> FForall("t", "tree", FBin("termEq", EVar("t"), EVar("t")))] >>

\* the tactics a user may submit
TacticInputs ==
    { [kind |-> "intro", varName |-> v] : v \in {"", "m"} }
    \cup { [kind |-> "intro_hyp", hypName |-> h] : h \in {"", "IH_n"} }
    \cup { [kind |-> k] : k \in {"split", "left", "right", "reflexivity", "trivial",
                                 "simplify", "rewrite"} }
    \cup { [kind |-> k, varName |-> v] : k \in {"induction", "case_analysis"},
                                         v \in {"n", "m", "t"} }
    \cup { [kind |-> k, hypName |-> h] : k \in {"exact", "apply", "discriminate"},
                                         h \in {"H0", "IH_n"} }
    \cup { [kind |-> "unfold", funcId |-> "size", side |-> sd] : sd \in {"left", "right"} }
    \cup { [kind |-> "exists_witness", witness |-> ECon("Z", <<>>)] }

ProofInit ==
    /\ proofs = <<>>
    /\ result = Null
    /\ nextId = 0

RECURSIVE SumLen(_, _)
SumLen(ps, ids) ==
    IF ids = {} THEN 0
    ELSE LET q == CHOOSE q \in ids : TRUE IN Len(ps[q].steps) + SumLen(ps, ids \ {q})


\* proofs started plus proof steps recorded
OpCount == Cardinality(DOMAIN proofs) + SumLen(proofs, DOMAIN proofs)

\* store.startProof(propertyId)
StartProof(propertyId) ==
    /\ OpCount < MaxOps
    /\ MapGet(properties, propertyId) # Null
    /\ LET proof == createProof(MapGet(properties, propertyId), nextId) IN
       /\ proofs' = (proof.id :> proof) @@ proofs
       /\ nextId' = nextId + 2
    /\ UNCHANGED result

\* the store keeps the new proof only when the tactic succeeded
storeResult(proofId, r) ==
    /\ result' = r.result
    /\ IF r.result.success
       THEN /\ proofs' = [proofs EXCEPT ![proofId] = r.proof]
            /\ nextId' = nextId + r.result.ids
       ELSE UNCHANGED <<proofs, nextId>>

\* store.applyTactic(proofId, goalId, tactic)
ApplyTactic(proofId, goalId, tactic) ==
    IF proofId \notin DOMAIN proofs
    THEN /\ result' = Failure("Proof not found")
         /\ UNCHANGED <<proofs, nextId>>
    ELSE storeResult(proofId,
                     applyTacticToProof(proofs[proofId], goalId, tactic, nextId))

\* the ids a caller can name: those of the store and one that was never drawn
ProofIdInputs == DOMAIN proofs \cup {0}
GoalIdInputs(proofId) ==
    IF proofId \in DOMAIN proofs THEN DOMAIN proofs[proofId].goals \cup {0} ELSE {0}

NextProof ==
    \/ \E p \in SeqRange(properties) :
          StartProof(p.id) /\ UNCHANGED <<arithVars, evalVars, sdVars, drvVars, restVars>>
    \/ \E pid \in ProofIdInputs : \E gid \in GoalIdInputs(pid) : \E t \in TacticInputs :
          /\ OpCount < MaxOps
          /\ ApplyTactic(pid, gid, t)
          /\ UNCHANGED <<arithVars, evalVars, sdVars, drvVars, restVars>>

InitProofSpec ==
    /\ ProofInit
    /\ RestIdle
    /\ arithIn = Null /\ arithOut = Null
    /\ evalIn = Null /\ evalStack = <<>> /\ evalStatus = "idle"
    /\ sdIn = Null /\ sdOut = Null
    /\ drvIn = Null /\ drvOut = Null

SpecProof == InitProofSpec /\ [][NextProof]_vars

(***************************************************************************)
(* Claims about the proof engine, checked under SpecProof                  *)
(***************************************************************************)
\* the proofs of the store, as a set
StoredProofs == { proofs[p] : p \in DOMAIN proofs }

\* C1: in every proof reached from createProof by applyTacticToProof calls,
\* successful or failed, status is complete exactly when openGoals is empty,
\* every open goal id is a key of goals, and rootGoalId is a key of goals.
C1_ProofInvariants ==
    \A P \in StoredProofs :
        /\ (P.status = "complete") <=> (Len(P.openGoals) = 0)
        /\ \A i \in 1..Len(P.openGoals) : P.openGoals[i] \in DOMAIN P.goals
        /\ P.rootGoalId \in DOMAIN P.goals

\* a proof was completed by its steps, and the last call on it failed
C1_Witness ==
    /\ result # Null /\ ~result.success
    /\ \E P \in StoredProofs :
          P.status = "complete" /\ Len(P.steps) >= 2 /\ P.openGoals = <<>>

\* every call a user can make in the current state, with what it returns
CallOutcomes ==
    { [proofId |-> pid, goalId |-> gid, tactic |-> t,
       out |-> applyTacticToProof(proofs[pid], gid, t, nextId)] :
         pid \in DOMAIN proofs, gid \in 0..nextId, t \in TacticInputs }

\* C2: a tactic application that fails (precondition, unknown goal id, goal
\* no longer open, unknown proof id) returns a failure result carrying an
\* error, applyTacticToProof returns the proof it was given, and the store
\* keeps every proof as it was.
C2_FailureIsNoOp ==
    /\ [](\A c \in CallOutcomes :
            ~c.out.result.success =>
                /\ c.out.proof = proofs[c.proofId]
                /\ c.out.result.error # "")
    /\ [][(DOMAIN proofs' = DOMAIN proofs /\ result' # Null /\ ~result'.success)
            => (proofs' = proofs /\ result'.error # "")]_vars

\* a call on a goal that is no longer open has failed on a proof with steps
C2_Witness ==
    /\ result = Failure("Goal already proved")
    /\ \E P \in StoredProofs : Len(P.steps) >= 1 /\ Len(P.openGoals) >= 1

\* s without the entries equal to x, order kept
RECURSIVE Without(_, _)
Without(s, x) ==
    IF s = <<>> THEN <<>>
    ELSE IF Head(s) = x THEN Without(Tail(s), x)
    ELSE <<Head(s)>> \o Without(Tail(s), x)

\* C3: when a tactic succeeds on an open goal g and produces g1..gk, the new
\* openGoals is the old one without g, order kept, followed by g1..gk in
\* production order; every gi is in the goals mapping; g is no longer open
\* and every gi is.
C3_OpenGoalsUpdate ==
    \A c \in CallOutcomes :
        c.out.result.success =>
            LET old == proofs[c.proofId]
                new == c.out.proof
                gs  == c.out.result.newGoals
            IN  /\ c.goalId \in SeqRange(old.openGoals)
                /\ new.openGoals = Without(old.openGoals, c.goalId)
                                   \o [i \in 1..Len(gs) |-> gs[i].id]
                /\ \A i \in 1..Len(gs) :
                      /\ gs[i].id \in DOMAIN new.goals
                      /\ new.goals[gs[i].id] = gs[i]
                      /\ gs[i].id \in SeqRange(new.openGoals)
                /\ c.goalId \notin SeqRange(new.openGoals)

\* the last step replaced an open goal by a later one while an open goal
\* behind it stayed: the survivor now comes first and the new goal last
C3_Witness ==
    /\ result # Null /\ result.success /\ Len(result.newGoals) >= 1
    /\ \E P \in StoredProofs :
          /\ Len(P.steps) >= 2 /\ Len(P.openGoals) >= 2
          /\ P.steps[Len(P.steps)].goalId < P.openGoals[1]
          /\ P.openGoals[Len(P.openGoals)] = result.newGoals[Len(result.newGoals)].id

\* the names of a sequence of variables or hypotheses are pairwise distinct
UniqueNames(s) ==
    \A i \in 1..Len(s) : \A j \in 1..Len(s) : s[i].name = s[j].name => i = j

\* C6: in every goal reached from createProof by successful tactics no two
\* variables of the context share a name and no two hypotheses share a name.
C6_UniqueContextNames ==
    \A P \in StoredProofs : \A g \in DOMAIN P.goals :
        /\ UniqueNames(P.goals[g].context.variables)
        /\ UniqueNames(P.goals[g].context.hypotheses)

\* what C7 asks of the subgoal sg that induction on x produces from goal g
\* for the constructor c of the sort of x
InductionCase(g, x, sortId, c, sg) ==
    LET m == Len(c.args)
        kept == SelectSeq(g.context.variables, LAMBDA v : v.name # x)
        n == Len(sg.context.variables)
        vs == [i \in 1..m |-> sg.context.variables[n - m + i]]
        rec == SelectSeq([i \in 1..m |-> i], LAMBDA i : c.args[i].sortId = sortId)
    IN  /\ n = Len(kept) + m
        /\ sg.context.variables = kept \o vs
        /\ \A i \in 1..m : vs[i].sortId = c.args[i].sortId
        /\ UniqueNames(vs)
        /\ \A i \in 1..m : \A j \in 1..Len(kept) : vs[i].name # kept[j].name
        /\ sg.goal = substituteFormula(g.goal, x,
                         ECon(c.id, [i \in 1..m |-> EVar(vs[i].name)]))
        /\ Len(sg.context.hypotheses) = Len(g.context.hypotheses) + Len(rec)
        /\ \A i \in 1..Len(g.context.hypotheses) :
              sg.context.hypotheses[i] = g.context.hypotheses[i]
        /\ \A k \in 1..Len(rec) :
              LET ih == sg.context.hypotheses[Len(g.context.hypotheses) + k] IN
              /\ ih.name = "IH_" \o vs[rec[k]].name
              /\ ih.formula = substituteFormula(g.goal, x, EVar(vs[rec[k]].name))

\* C7: induction on x : S, S inductive, yields one subgoal per constructor
\* of S in registry order; the subgoal for C proves P[x := C(v1..vn)] with
\* v1..vn fresh (pairwise distinct and not in the context), x removed, and
\* one hypothesis IH_vi : P[x := vi] added for each argument of sort S.
C7_InductionContract ==
    \A P \in StoredProofs : \A gid \in SeqRange(P.openGoals) :
        \A x \in {"n", "m", "t"} :
            LET g == P.goals[gid]
                v == FindByName(g.context.variables, x)
                r == applyTactic(g, [kind |-> "induction", varName |-> x], nextId)
            IN  (v # Null /\ MapGet(sorts, v.sortId).kind = "inductive") =>
                    LET cs == ConstructorsOfSort(v.sortId) IN
                    /\ r.success
                    /\ Len(r.newGoals) = Len(cs)
                    /\ \A k \in 1..Len(cs) :
                          InductionCase(g, x, v.sortId, cs[k], r.newGoals[k])

(***************************************************************************)
(* The arithmetic decider on bounded inputs                                *)
(***************************************************************************)
\* integer literals range over -MaxConst..MaxConst
MaxConst == 1
\* the values an interpretation gives to an atom range over -MaxValue..MaxValue
MaxValue == 2

\* the expressions an interpretation assigns a value: variables and applications
ArithAtoms == { EVar("x"), EVar("y"), sizeOf(EVar("n")) }
ArithLeaves == ArithAtoms \cup { EInt(c) : c \in -MaxConst..MaxConst }
ArithExprs ==
    ArithLeaves \cup { EBin(k, a, b) : k \in ArithKinds, a \in ArithLeaves, b \in ArithLeaves }

\* hypotheses e >= e' and e > e' over the leaves
ArithHyps ==
    { [id |-> 0, name |-> "H0", formula |-> FBin(k, a, b)] :
        k \in {"numGeq", "numGt"}, a \in ArithAtoms, b \in ArithLeaves }

ArithInputs ==
    [left : ArithExprs, right : ArithLeaves,
     hypotheses : { <<>> } \cup { <<h>> : h \in ArithHyps },
     cmp : {"numGeq", "numLeq"}]

ArithInit ==
    /\ arithIn \in ArithInputs
    /\ arithOut = Null

\* canProveGeq on the input, and the simplify tactic on the goal left cmp right
DecideArith ==
    /\ arithOut = Null
    /\ arithOut' =
         [geq |-> canProveGeq(arithIn.left, arithIn.right, arithIn.hypotheses),
          simplify |-> tacticSimplify(
                          Goal(1, <<>>, arithIn.hypotheses,
                               FBin(arithIn.cmp, arithIn.left, arithIn.right)), 1)]
    /\ UNCHANGED arithIn

NextArith == DecideArith /\ UNCHANGED <<proofVars, evalVars, sdVars, drvVars, restVars>>

InitArithSpec ==
    /\ ArithInit
    /\ ProofInit
    /\ RestIdle
    /\ evalIn = Null /\ evalStack = <<>> /\ evalStatus = "idle"
    /\ sdIn = Null /\ sdOut = Null
    /\ drvIn = Null /\ drvOut = Null

SpecArith == InitArithSpec /\ [][NextArith]_vars

\* an integer interpretation of the atoms
Interpretations == [ArithAtoms -> -MaxValue..MaxValue]

\* the value of an expression under an interpretation
RECURSIVE Value(_, _)
Value(e, I) ==
    IF e \in ArithAtoms THEN I[e]
    ELSE IF e.kind = "int" THEN e.value
    ELSE ArithOp(e.kind, Value(e.left, I), Value(e.right, I))

\* the truth of a comparison under an interpretation
Holds(f, I) == NumCmp(f.kind, Value(f.left, I), Value(f.right, I))

\* f holds under every interpretation that satisfies the hypotheses
Entailed(f, hypotheses) ==
    \A I \in Interpretations :
        (\A i \in 1..Len(hypotheses) : Holds(hypotheses[i].formula, I)) => Holds(f, I)

\* C4: whenever canProveGeq(l, r, H) is true, l >= r holds under every
\* integer interpretation satisfying H, also for hypotheses e >= c and e > c
\* with c negative; and simplify never discharges a >= or <= goal that some
\* interpretation satisfying the hypotheses makes false.
C4_DeciderSound ==
    arithOut # Null =>
        /\ arithOut.geq =>
              Entailed(FBin("numGeq", arithIn.left, arithIn.right), arithIn.hypotheses)
        /\ (arithOut.simplify.success /\ arithOut.simplify.newGoals = <<>>) =>
              Entailed(FBin(arithIn.cmp, arithIn.left, arithIn.right), arithIn.hypotheses)

\* the same statement for hypotheses whose constant is not negative
C4_SoundWithoutNegativeBounds ==
    (arithOut # Null /\ \A i \in 1..Len(arithIn.hypotheses) :
                            LET rv == evalExprToNumber(arithIn.hypotheses[i].formula.right)
                            IN  rv.ok => rv.v >= 0)
        => C4_DeciderSound

(***************************************************************************)
(* Termination checking and evaluation of recursive functions.  The bodies *)
(* are built from int, var, call, callMulti and the binary operators; for  *)
(* these evaluateExpr evaluates both operands of an operator whatever they *)
(* return, so the calls an evaluation makes do not depend on the values.   *)
(***************************************************************************)
\* the first error of a sequence of results, from index `from` on; "" if none
FirstError(errs, from) ==
    IF \E i \in from..Len(errs) : errs[i] # ""
    THEN errs[CHOOSE i \in from..Len(errs) :
                errs[i] # "" /\ \A j \in from..(i-1) : errs[j] = ""]
    ELSE ""

FuncBinKinds == ArithKinds \cup {"union", "intersect", "diff"}
PredCmpKinds == {"eq", "neq", "lt", "leq", "gt", "geq", "atomEq", "atomNeq", "subset"}

RECURSIVE checkExprTermination(_, _, _, _)
RECURSIVE checkPredicateTermination(_, _, _, _)
\* string | null, with "" for null
checkExprTermination(expr, selfId, structuralVars, allFunctions) ==
    CASE expr.kind \in {"int", "empty", "var"} -> ""
      [] expr.kind = "singleton" ->
            checkExprTermination(expr.element, selfId, structuralVars, allFunctions)
      [] expr.kind = "call" ->
            IF expr.funcId = selfId
            THEN IF expr.arg.kind # "var"
                 THEN "Recursive call must be on a variable, not a complex expression"
                 ELSE IF expr.arg.name \notin structuralVars
                 THEN "Recursive call on a variable which is not a structural subterm"
                 ELSE ""
            ELSE checkExprTermination(expr.arg, selfId, structuralVars, allFunctions)
      [] expr.kind = "callMulti" ->
            IF MapGet(allFunctions, expr.funcId) = Null THEN ""
            ELSE LET errs == [i \in 1..Len(expr.args) |->
                                checkExprTermination(expr.args[i], selfId,
                                                     structuralVars, allFunctions)]
                 IN  IF expr.funcId = selfId
                     THEN IF Len(expr.args) = 0 THEN "Recursive call has no arguments"
                          ELSE IF expr.args[1].kind # "var"
                          THEN "Recursive call's principal argument must be a variable"
                          ELSE IF expr.args[1].name \notin structuralVars
                          THEN "Recursive call on a variable which is not a structural subterm"
                          ELSE FirstError(errs, 2)
                     ELSE FirstError(errs, 1)
      [] expr.kind = "construct" ->
            FirstError([i \in 1..Len(expr.args) |->
                           checkExprTermination(expr.args[i], selfId,
                                                structuralVars, allFunctions)], 1)
      [] expr.kind \in FuncBinKinds ->
            LET leftErr == checkExprTermination(expr.left, selfId, structuralVars, allFunctions)
            IN  IF leftErr # "" THEN leftErr
                ELSE checkExprTermination(expr.right, selfId, structuralVars, allFunctions)
      [] expr.kind = "if" ->
            LET condErr == checkPredicateTermination(expr.cond, selfId,
                                                     structuralVars, allFunctions)
                thenErr == checkExprTermination(expr.then, selfId,
                                                structuralVars, allFunctions)
            IN  IF condErr # "" THEN condErr
                ELSE IF thenErr # "" THEN thenErr
                ELSE checkExprTermination(expr.else, selfId, structuralVars, allFunctions)

checkPredicateTermination(pred, selfId, structuralVars, allFunctions) ==
    CASE pred.kind \in PredCmpKinds ->
            LET leftErr == checkExprTermination(pred.left, selfId, structuralVars, allFunctions)
            IN  IF leftErr # "" THEN leftErr
                ELSE checkExprTermination(pred.right, selfId, structuralVars, allFunctions)
      [] pred.kind = "in" ->
            LET elemErr == checkExprTermination(pred.element, selfId,
                                                structuralVars, allFunctions)
            IN  IF elemErr # "" THEN elemErr
                ELSE checkExprTermination(pred.set, selfId, structuralVars, allFunctions)
      [] pred.kind = "isEmpty" ->
            checkExprTermination(pred.set, selfId, structuralVars, allFunctions)
      [] pred.kind \in {"and", "or"} ->
            LET lErr == checkPredicateTermination(pred.left, selfId,
                                                  structuralVars, allFunctions)
            IN  IF lErr # "" THEN lErr
                ELSE checkPredicateTermination(pred.right, selfId,
                                               structuralVars, allFunctions)
      [] pred.kind = "not" ->
            checkPredicateTermination(pred.pred, selfId, structuralVars, allFunctions)

\* the case loop of checkTermination from case i on
RECURSIVE checkCasesFrom(_, _, _, _)
checkCasesFrom(func, constructorMap, allFunctions, i) ==
    IF i > Len(func.cases) THEN [terminates |-> TRUE, error |-> ""]
    ELSE LET funcCase == func.cases[i]
             constructor == MapGet(constructorMap, funcCase.constructorId)
         IN  IF constructor = Null
             THEN [terminates |-> FALSE, error |-> "Unknown constructor in case"]
             ELSE LET structuralVars ==
                          { funcCase.boundVars[k] :
                              k \in { k \in 1..Len(constructor.args) :
                                        /\ constructor.args[k].sortId = func.inputSortId
                                        /\ k <= Len(funcCase.boundVars)
                                        /\ funcCase.boundVars[k] # "" } }
                      error == checkExprTermination(funcCase.body, func.id,
                                                    structuralVars, allFunctions)
                  IN  IF error # ""
                      THEN [terminates |-> FALSE,
                            error |-> "In case " \o constructor.name \o ": " \o error]
                      ELSE checkCasesFrom(func, constructorMap, allFunctions, i + 1)

checkTermination(func, constructorMap, allFunctions) ==
    checkCasesFrom(func, constructorMap, allFunctions, 1)

\* Terms without their ids (which nothing modelled here reads): a constructor
\* application, and an atom (isVariable with a variableName)
Term(c, as) ==
    [constructorId |-> c, args |-> as, isVariable |-> FALSE, variableName |-> ""]
AtomTerm(name) ==
    [constructorId |-> "", args |-> <<>>, isVariable |-> TRUE, variableName |-> name]

\* func.cases.find(c => c.constructorId === term.constructorId), or Null
FindCase(func, constructorId) ==
    IF \E i \in 1..Len(func.cases) : func.cases[i].constructorId = constructorId
    THEN func.cases[CHOOSE i \in 1..Len(func.cases) :
                        /\ func.cases[i].constructorId = constructorId
                        /\ \A j \in 1..(i-1) : func.cases[j].constructorId # constructorId]
    ELSE Null

\* boundVars.forEach((varName, i) => termEnv.set(varName, term.args[i])) from i on
RECURSIVE BindVars(_, _, _, _)
BindVars(termEnv, boundVars, args, i) ==
    IF i > Len(boundVars) THEN termEnv
    ELSE BindVars(IF boundVars[i] # "" /\ i <= Len(args)
                  THEN (boundVars[i] :> args[i]) @@ termEnv
                  ELSE termEnv,
                  boundVars, args, i + 1)

\* the call and callMulti nodes that evaluateExpr reaches, in evaluation order
RECURSIVE CallSites(_)
CallSites(expr) ==
    CASE expr.kind \in {"call", "callMulti"} -> << expr >>
      [] expr.kind \in ArithKinds -> CallSites(expr.left) \o CallSites(expr.right)
      [] OTHER -> <<>>

\* the frame in which evaluateFuncMulti evaluates the matching case's body,
\* or Null when it returns null before evaluating anything
EnterFuncMulti(func, principalTerm, extraEnv) ==
    LET matchingCase == FindCase(func, principalTerm.constructorId) IN
    IF principalTerm.isVariable /\ principalTerm.variableName # "" THEN Null
    ELSE IF matchingCase = Null THEN Null
    ELSE IF MapGet(constructors, principalTerm.constructorId) = Null THEN Null
    ELSE [funcId |-> func.id,
          term |-> principalTerm,
          env |-> BindVars(extraEnv, matchingCase.boundVars, principalTerm.args, 1),
          pending |-> CallSites(matchingCase.body)]

\* the same for evaluateFunc, which starts from an empty environment
EnterFunc(func, term) == EnterFuncMulti(func, term, <<>>)

\* the loop of callMulti over func.extraArgs from index i (0-based) on
RECURSIVE ExtraTermEnv(_, _, _, _, _)
ExtraTermEnv(extraTermEnv, termEnv, func, args, i) ==
    IF ~(i < Len(func.extraArgs) /\ i + 1 < Len(args)) THEN extraTermEnv
    ELSE LET argExpr == args[i + 2]
             argDef == func.extraArgs[i + 1]
         IN  ExtraTermEnv(IF argExpr.kind = "var" /\ argExpr.name \in DOMAIN termEnv
                          THEN (argDef.name :> termEnv[argExpr.name]) @@ extraTermEnv
                          ELSE extraTermEnv,
                          termEnv, func, args, i + 1)

\* the frame a call or callMulti node enters, or Null when it returns null
EnterCall(expr, termEnv, functions) ==
    LET func == MapGet(functions, expr.funcId) IN
    IF func = Null THEN Null
    ELSE IF expr.kind = "call"
    THEN IF expr.arg.kind # "var" THEN Null
         ELSE IF expr.arg.name \notin DOMAIN termEnv THEN Null
         ELSE EnterFunc(func, termEnv[expr.arg.name])
    ELSE IF Len(expr.args) = 0 THEN Null
         ELSE IF expr.args[1].kind # "var" THEN Null
         ELSE IF expr.args[1].name \notin DOMAIN termEnv THEN Null
         ELSE EnterFuncMulti(func, termEnv[expr.args[1].name],
                             ExtraTermEnv(termEnv, termEnv, func, expr.args, 0))

\* the nesting of calls at which the engine gives up with a stack overflow
MaxDepth == 5
\* closed terms S^k(Z) with k up to MaxTermDepth
MaxTermDepth == 2

RECURSIVE Peano(_)
Peano(k) == IF k = 0 THEN Term("Z", <<>>) ELSE Term("S", << Peano(k - 1) >>)

\* the bodies a case of the functions f and g may be given
BodyInputs ==
    { XInt(0),
      XBin("add", XInt(1), XCall("f", XVar("n"))),
      XCall("g", XVar("n")),
      XBin("max", XCall("f", XVar("a")), XCallMulti("g", << XVar("n"), XVar("n") >>)),
      XCallMulti("f", << XVar("n") >>),
      XCallMulti("g", << XVar("n") >>) }

FuncF(bz, bs) ==
    [id |-> "f", inputSortId |-> "nat", extraArgs |-> <<>>,
     cases |-> << [constructorId |-> "Z", boundVars |-> <<>>, body |-> bz],
                  [constructorId |-> "S", boundVars |-> <<"n">>, body |-> bs] >>]

FuncG(bz, bs) ==
    [id |-> "g", inputSortId |-> "nat",
     extraArgs |-> << [name |-> "a", sortId |-> "nat"] >>,
     cases |-> << [constructorId |-> "Z", boundVars |-> <<>>, body |-> bz],
                  [constructorId |-> "S", boundVars |-> <<"n">>, body |-> bs] >>]

EvalInputs ==
    { [functions |-> << FuncF(b[1], b[2]), FuncG(b[3], b[4]) >>,
       funcId |-> f, term |-> Peano(k)] :
        b \in [1..4 -> BodyInputs], f \in {"f", "g"}, k \in 0..MaxTermDepth }
    \cup { [functions |-> << FuncF(b, b), FuncG(b, b) >>,
             funcId |-> "f", term |-> AtomTerm("x")] : b \in BodyInputs }

EvalInit ==
    /\ evalIn \in EvalInputs
    /\ evalStack = <<>>
    /\ evalStatus = "idle"

\* evaluateFunc(func, term, functions, constructors) is called
EvalStart ==
    /\ evalStatus = "idle"
    /\ LET frame == EnterFunc(MapGet(evalIn.functions, evalIn.funcId), evalIn.term) IN
       IF frame = Null
       THEN evalStatus' = "done" /\ evalStack' = <<>>
       ELSE evalStatus' = "running" /\ evalStack' = << frame >>
    /\ UNCHANGED evalIn

\* the running body reaches its next call or callMulti node
EvalCall ==
    /\ evalStatus = "running"
    /\ evalStack # <<>>
    /\ LET top == evalStack[Len(evalStack)] IN
       /\ top.pending # <<>>
       /\ LET frame == EnterCall(Head(top.pending), top.env, evalIn.functions)
              rest == [evalStack EXCEPT ![Len(evalStack)].pending = Tail(top.pending)]
          IN  IF frame = Null
              THEN evalStack' = rest /\ evalStatus' = evalStatus
              ELSE IF Len(evalStack) >= MaxDepth
              THEN evalStack' = evalStack /\ evalStatus' = "overflow"
              ELSE evalStack' = Append(rest, frame) /\ evalStatus' = evalStatus
    /\ UNCHANGED evalIn

\* the running body has made all its calls and returns
EvalReturn ==
    /\ evalStatus = "running"
    /\ evalStack # <<>>
    /\ evalStack[Len(evalStack)].pending = <<>>
    /\ evalStack' = SubSeq(evalStack, 1, Len(evalStack) - 1)
    /\ evalStatus' = IF Len(evalStack) = 1 THEN "done" ELSE "running"
    /\ UNCHANGED evalIn

NextEval ==
    \/ EvalStart /\ UNCHANGED <<proofVars, arithVars, sdVars, drvVars, restVars>>
    \/ EvalCall /\ UNCHANGED <<proofVars, arithVars, sdVars, drvVars, restVars>>
    \/ EvalReturn /\ UNCHANGED <<proofVars, arithVars, sdVars, drvVars, restVars>>

InitEvalSpec ==
    /\ EvalInit
    /\ ProofInit
    /\ RestIdle
    /\ arithIn = Null /\ arithOut = Null
    /\ sdIn = Null /\ sdOut = Null
    /\ drvIn = Null /\ drvOut = Null

SpecEval == InitEvalSpec /\ [][NextEval]_vars

\* C5: for functions with terminates = true and a closed ground term t,
\* evaluateFunc(f, t) terminates, also through call and callMulti and the
\* environment callMulti passes along: the evaluation never overflows the
\* stack and never re-enters a call it is still evaluating (the same
\* function on the same term in the same environment, from which the
\* evaluation repeats itself without end).
C5_EvaluationTerminates ==
    (\A i \in 1..Len(evalIn.functions) :
        checkTermination(evalIn.functions[i], constructors, evalIn.functions).terminates)
    => /\ evalStatus # "overflow"
       /\ \A i \in 1..Len(evalStack) : \A j \in 1..Len(evalStack) :
             i < j => \/ evalStack[i].funcId # evalStack[j].funcId
                      \/ evalStack[i].term # evalStack[j].term
                      \/ evalStack[i].env # evalStack[j].env

(***************************************************************************)
(* Patterns, matching and the syntax-directedness analysis                 *)
(***************************************************************************)
\* Pattern without its id; an undefined constructorId or metaVariableId is ""
Pat(c, as) == [constructorId |-> c, metaVariableId |-> "", args |-> as]
MV(x) == [constructorId |-> "", metaVariableId |-> x, args |-> <<>>]

RECURSIVE termsEqual(_, _)
termsEqual(t1, t2) ==
    IF t1.isVariable \/ t2.isVariable
    THEN t1.isVariable = t2.isVariable /\ t1.variableName = t2.variableName
    ELSE IF t1.constructorId # t2.constructorId THEN FALSE
    ELSE IF Len(t1.args) # Len(t2.args) THEN FALSE
    ELSE \A i \in 1..Len(t1.args) : termsEqual(t1.args[i], t2.args[i])

\* Map<string, Term> | null
Bindings(m) == [kind |-> "bindings", map |-> m]

ConflictIgnored(a, b) == FALSE

\* two binding maps disagree on a key they share
Conflict(a, b) ==
    \E k \in DOMAIN a \cap DOMAIN b : ~termsEqual(a[k], b[k])

RECURSIVE matchPattern(_, _)
RECURSIVE MatchArgsFrom(_, _, _, _)
\* the loop of matchPattern over the pattern's arguments from i on
MatchArgsFrom(term, pattern, allBindings, i) ==
    IF i > Len(pattern.args) THEN Bindings(allBindings)
    ELSE LET argBindings == matchPattern(term.args[i], pattern.args[i]) IN
         IF argBindings = Null THEN Null
         ELSE IF Conflict(allBindings, argBindings.map) THEN Null
         ELSE MatchArgsFrom(term, pattern, argBindings.map @@ allBindings, i + 1)

matchPattern(term, pattern) ==
    IF pattern.metaVariableId # "" THEN Bindings(pattern.metaVariableId :> term)
    ELSE IF pattern.constructorId # ""
    THEN IF term.isVariable THEN Null
         ELSE IF term.constructorId # pattern.constructorId THEN Null
         ELSE IF Len(term.args) # Len(pattern.args) THEN Null
         ELSE MatchArgsFrom(term, pattern, <<>>, 1)
    ELSE Null

RECURSIVE patternsCanOverlap(_, _)
patternsCanOverlap(p1, p2) ==
    IF p1.metaVariableId # "" \/ p2.metaVariableId # "" THEN TRUE
    ELSE IF p1.constructorId # "" /\ p2.constructorId # ""
            /\ p1.constructorId # p2.constructorId THEN FALSE
    ELSE IF p1.constructorId = p2.constructorId
    THEN \A i \in 1..Min2(Len(p1.args), Len(p2.args)) :
            patternsCanOverlap(p1.args[i], p2.args[i])
    ELSE TRUE

\* the three nested loops of analyzesSyntaxDirected from (i, j, pos) on,
\* with i, j and pos counted from 1
RECURSIVE OverlapsFrom(_, _, _, _)
OverlapsFrom(relevantRules, i, j, pos) ==
    IF i > Len(relevantRules) THEN <<>>
    ELSE IF j > Len(relevantRules) THEN OverlapsFrom(relevantRules, i + 1, i + 2, 1)
    ELSE IF pos > Len(relevantRules[i].conclusion.args)
    THEN OverlapsFrom(relevantRules, i, j + 1, 1)
    ELSE LET rule1 == relevantRules[i]
             rule2 == relevantRules[j]
         IN  (IF patternsCanOverlap(rule1.conclusion.args[pos], rule2.conclusion.args[pos])
              THEN << [rule1Id |-> rule1.id, rule2Id |-> rule2.id,
                       overlappingPosition |-> pos - 1] >>
              ELSE <<>>)
             \o OverlapsFrom(relevantRules, i, j, pos + 1)

analyzesSyntaxDirected(judgment, rules) ==
    LET relevantRules == SelectSeq(rules, LAMBDA r : r.conclusion.judgmentId = judgment.id)
        overlaps == OverlapsFrom(relevantRules, 1, 2, 1)
    IN  [isSyntaxDirected |-> Len(overlaps) = 0, overlaps |-> overlaps]

\* judgments of the inputs have up to MaxArity arguments and MaxRules rules
MaxArity == 2
MaxRules == 3

PatternInputs ==
    { MV("n"), Pat("Z", <<>>), Pat("S", << MV("n") >>), Pat("S", << Pat("Z", <<>>) >>) }

Rule(id, name, judgmentId, args, premises) ==
    [id |-> id, name |-> name,
     conclusion |-> [judgmentId |-> judgmentId, args |-> args],
     premises |-> premises]

\* a judgment J of arity a, its k rules with the conclusion patterns ps, and
\* a rule of another judgment between them
SDInput(a, k, ps) ==
    [judgment |-> [id |-> "J", argSorts |-> [i \in 1..a |-> [sortId |-> "nat"]]],
     rules |-> << Rule(1, "R1", "J", ps[1], <<>>),
                  Rule(0, "K1", "K", << MV("n") >>, <<>>) >>
               \o [i \in 1..(k - 1) |-> Rule(i + 1, "R" \o ToString(i + 1), "J", ps[i + 1], <<>>)]]

SDInputs ==
    UNION { { SDInput(a, k, ps) : ps \in [1..k -> [1..a -> PatternInputs]] } :
              a \in 0..MaxArity, k \in 1..MaxRules }

SDInit ==
    /\ sdIn \in SDInputs
    /\ sdOut = Null

\* analyzesSyntaxDirected(judgment, rules, constructors) is called
Analyze ==
    /\ sdOut = Null
    /\ sdOut' = analyzesSyntaxDirected(sdIn.judgment, sdIn.rules)
    /\ UNCHANGED sdIn

NextSD == Analyze /\ UNCHANGED <<proofVars, arithVars, evalVars, drvVars, restVars>>

InitSDSpec ==
    /\ SDInit
    /\ ProofInit
    /\ RestIdle
    /\ arithIn = Null /\ arithOut = Null
    /\ evalIn = Null /\ evalStack = <<>> /\ evalStatus = "idle"
    /\ drvIn = Null /\ drvOut = Null

SpecSD == InitSDSpec /\ [][NextSD]_vars

\* the rules of the analysed judgment
RulesOfInput == SelectSeq(sdIn.rules, LAMBDA r : r.conclusion.judgmentId = sdIn.judgment.id)

\* rules r1 and r2 could overlap at every argument position
OverlapEverywhere(r1, r2) ==
    \A pos \in 1..Len(sdIn.judgment.argSorts) :
        patternsCanOverlap(r1.conclusion.args[pos], r2.conclusion.args[pos])

\* C8: isSyntaxDirected is true exactly when no pair of distinct rules of the
\* judgment has conclusion patterns that could overlap at every argument
\* position; a pair separated at one position does not make the judgment
\* non-syntax-directed.  Stated for judgments that have arguments.
C8_SyntaxDirectedIffNoFullOverlap ==
    (sdOut # Null /\ Len(sdIn.judgment.argSorts) >= 1) =>
        (sdOut.isSyntaxDirected <=>
            ~ \E i \in 1..Len(RulesOfInput) : \E j \in 1..Len(RulesOfInput) :
                  i < j /\ OverlapEverywhere(RulesOfInput[i], RulesOfInput[j]))

\* the closed terms the tuples are drawn from
TermInputs == { Peano(k) : k \in 0..MaxTermDepth }

\* every conclusion pattern of the rule matches its term of the tuple
RuleMatches(rule, ts) ==
    /\ Len(rule.conclusion.args) = Len(ts)
    /\ \A pos \in 1..Len(ts) : matchPattern(ts[pos], rule.conclusion.args[pos]) # Null

\* C9: when isSyntaxDirected is true, at most one rule of the judgment
\* matches any tuple of terms, for judgments of every arity, 0 included.
C9_SyntaxDirectedAtMostOneRule ==
    (sdOut # Null /\ sdOut.isSyntaxDirected) =>
        \A ts \in [1..Len(sdIn.judgment.argSorts) -> TermInputs] :
            Cardinality({ i \in 1..Len(RulesOfInput) : RuleMatches(RulesOfInput[i], ts) }) <= 1

\* the same statement for judgments with at least one argument
C9_AtMostOneRuleWithArguments ==
    (sdOut # Null /\ sdOut.isSyntaxDirected /\ Len(sdIn.judgment.argSorts) >= 1) =>
        \A ts \in [1..Len(sdIn.judgment.argSorts) -> TermInputs] :
            Cardinality({ i \in 1..Len(RulesOfInput) : RuleMatches(RulesOfInput[i], ts) }) <= 1

(***************************************************************************)
(* Backward derivation search                                              *)
(***************************************************************************)
RECURSIVE isPatternComplete(_)
isPatternComplete(pattern) ==
    IF pattern.constructorId = "" /\ pattern.metaVariableId = "" THEN FALSE
    ELSE \A i \in 1..Len(pattern.args) : isPatternComplete(pattern.args[i])

isJudgmentInstanceComplete(instance) ==
    \A i \in 1..Len(instance.args) : isPatternComplete(instance.args[i])

isRuleComplete(rule) ==
    LET conclusionComplete == isJudgmentInstanceComplete(rule.conclusion)
        premisesComplete ==
            \A i \in 1..Len(rule.premises) : isJudgmentInstanceComplete(rule.premises[i])
    IN  conclusionComplete /\ premisesComplete

\* Term | null
RECURSIVE substitutePattern(_, _)
substitutePattern(pattern, bindings) ==
    IF pattern.metaVariableId # ""
    THEN IF pattern.metaVariableId \in DOMAIN bindings
         THEN bindings[pattern.metaVariableId] ELSE Null
    ELSE IF pattern.constructorId # ""
    THEN LET args == [i \in 1..Len(pattern.args) |->
                         substitutePattern(pattern.args[i], bindings)]
         IN  IF \E i \in 1..Len(args) : args[i] = Null THEN Null
             ELSE Term(pattern.constructorId, args)
    ELSE Null

getRulesForJudgmentReversed(rules, judgmentId) ==
    LET found == SelectSeq(rules, LAMBDA r :
                     r.conclusion.judgmentId = judgmentId /\ isRuleComplete(r))
    IN  [i \in 1..Len(found) |-> found[Len(found) + 1 - i]]

getRulesForJudgment(rules, judgmentId) ==
    SelectSeq(rules, LAMBDA r : r.conclusion.judgmentId = judgmentId /\ isRuleComplete(r))

\* buildDerivation gives up below this depth
DepthLimit == 10

\* the loop of buildDerivation that matches the terms against the conclusion
\* patterns from position i on and merges the bindings: Bindings or Null
RECURSIVE MatchConclusionFrom(_, _, _, _)
MatchConclusionFrom(terms, args, allBindings, i) ==
    IF i > Len(terms) THEN Bindings(allBindings)
    ELSE LET bindings == matchPattern(terms[i], args[i]) IN
         IF bindings = Null THEN Null
         ELSE IF Conflict(allBindings, bindings.map) THEN Null
         ELSE MatchConclusionFrom(terms, args, bindings.map @@ allBindings, i + 1)

RECURSIVE buildDerivation(_, _, _, _)
RECURSIVE DerivePremisesFrom(_, _, _, _, _)
RECURSIVE TryRulesFrom(_, _, _, _, _, _)

\* the loop over rule.premises from premise k on: the premise derivations
\* in a record [ok, ds], ok false when a premise is not satisfied
DerivePremisesFrom(rules, premises, allBindings, depth, k) ==
    IF k > Len(premises) THEN [ok |-> TRUE, ds |-> <<>>]
    ELSE LET premise == premises[k]
             premiseTerms == [i \in 1..Len(premise.args) |->
                                 substitutePattern(premise.args[i], allBindings)]
         IN  IF \E i \in 1..Len(premiseTerms) : premiseTerms[i] = Null
             THEN [ok |-> FALSE, ds |-> <<>>]
             ELSE LET premiseDerivation ==
                          buildDerivation(rules, premise.judgmentId, premiseTerms, depth + 1)
                  IN  IF premiseDerivation = Null THEN [ok |-> FALSE, ds |-> <<>>]
                      ELSE LET rest == DerivePremisesFrom(rules, premises, allBindings,
                                                          depth, k + 1)
                           IN  IF rest.ok
                               THEN [ok |-> TRUE, ds |-> << premiseDerivation >> \o rest.ds]
                               ELSE rest

\* the loop over rulesForJudgment from rule i on
TryRulesFrom(rules, rulesForJudgment, judgmentId, terms, depth, i) ==
    IF i > Len(rulesForJudgment) THEN Null
    ELSE LET rule == rulesForJudgment[i]
             conclusion == rule.conclusion
             next == TryRulesFrom(rules, rulesForJudgment, judgmentId, terms, depth, i + 1)
         IN  IF Len(conclusion.args) # Len(terms) THEN next
             ELSE LET allBindings == MatchConclusionFrom(terms, conclusion.args, <<>>, 1) IN
                  IF allBindings = Null THEN next
                  ELSE LET premiseDerivations ==
                               DerivePremisesFrom(rules, rule.premises, allBindings.map,
                                                  depth, 1)
                       IN  IF premiseDerivations.ok
                           THEN [ruleName |-> rule.name,
                                 ruleId |-> rule.id,
                                 conclusion |-> [judgmentId |-> judgmentId, terms |-> terms],
                                 premises |-> premiseDerivations.ds]
                           ELSE next

\* Derivation | null, for the rule registry rules
buildDerivation(rules, judgmentId, terms, depth) ==
    IF depth > DepthLimit THEN Null
    ELSE TryRulesFrom(rules, getRulesForJudgment(rules, judgmentId),
                      judgmentId, terms, depth, 1)

\* the rules of initializeWithExamples, in registry order
EZero == Rule("r1", "E-Zero", "even", << Pat("Z", <<>>) >>, <<>>)
ESucc == Rule("r2", "E-Succ", "even", << Pat("S", << MV("n") >>) >>,
              << [judgmentId |-> "odd", args |-> << MV("n") >>] >>)
OSucc == Rule("r3", "O-Succ", "odd", << Pat("S", << MV("n") >>) >>,
              << [judgmentId |-> "even", args |-> << MV("n") >>] >>)
PeanoRules == << EZero, ESucc, OSucc >>

\* further rules a user can add: an axiom that overlaps E-Zero and E-Succ, a
\* rule that overlaps E-Succ, one whose premise names a meta-variable the
\* conclusion does not bind, an incomplete one, one with a repeated
\* meta-variable, and one with two premises
EAny  == Rule("r9", "E-Any", "even", << MV("n") >>, <<>>)
ESkip == Rule("r4", "E-Skip", "even", << Pat("S", << Pat("S", << MV("n") >>) >>) >>,
              << [judgmentId |-> "even", args |-> << MV("n") >>] >>)
OFree == Rule("r5", "O-Free", "odd", << MV("n") >>,
              << [judgmentId |-> "even", args |-> << MV("m") >>] >>)
OHole == Rule("r6", "O-Hole", "odd", << Pat("S", << Pat("", <<>>) >>) >>, <<>>)
QRefl == Rule("r7", "Q-Refl", "eq", << MV("n"), MV("n") >>, <<>>)
QBoth == Rule("r8", "Q-Both", "eq", << MV("n"), MV("m") >>,
              << [judgmentId |-> "even", args |-> << MV("n") >>],
                 [judgmentId |-> "odd", args |-> << MV("m") >>] >>)
RulePool == { EZero, ESucc, OSucc, EAny, ESkip, OFree, OHole, QRefl, QBoth }

\* the registries of the inputs hold RegistrySize rules; the terms of the
\* queries are S^k(Z) with k up to MaxQueryDepth
RegistrySize == 3
MaxQueryDepth == 3

Registries ==
    { PeanoRules } \cup
    { rs \in [1..RegistrySize -> RulePool] :
        \A i \in 1..RegistrySize : \A j \in 1..RegistrySize : rs[i] = rs[j] => i = j }

QueryTerms ==
    { <<>> } \cup { << Peano(k) >> : k \in 0..MaxQueryDepth }
    \cup { << Peano(k), Peano(l) >> : k \in 0..1, l \in 0..1 }

DeriveInputs ==
    [rules : Registries, judgmentId : {"even", "odd", "eq"}, terms : QueryTerms]

DeriveInit ==
    /\ drvIn \in DeriveInputs
    /\ drvOut = Null

\* buildDerivation(judgmentId, terms) is called on the registry
Derive ==
    /\ drvOut = Null
    /\ drvOut' = [derivation |->
                    buildDerivation(drvIn.rules, drvIn.judgmentId, drvIn.terms, 0)]
    /\ UNCHANGED drvIn

NextDerive == Derive /\ UNCHANGED <<proofVars, arithVars, evalVars, sdVars, restVars>>

InitDeriveSpec ==
    /\ DeriveInit
    /\ ProofInit
    /\ RestIdle
    /\ arithIn = Null /\ arithOut = Null
    /\ evalIn = Null /\ evalStack = <<>> /\ evalStatus = "idle"
    /\ sdIn = Null /\ sdOut = Null

SpecDerive == InitDeriveSpec /\ [][NextDerive]_vars

\* the subterms of a term, the term included
RECURSIVE Subterms(_)
Subterms(t) == {t} \cup UNION { Subterms(t.args[i]) : i \in 1..Len(t.args) }

\* the assignments of subterms of the queried terms to the meta-variables
Assignments(terms) ==
    [{"n", "m"} -> UNION { Subterms(terms[i]) : i \in 1..Len(terms) }]

\* the conclusion patterns of the rule, instantiated by b, are the terms
Instantiates(rule, terms, b) ==
    /\ Len(rule.conclusion.args) = Len(terms)
    /\ \A i \in 1..Len(terms) : substitutePattern(rule.conclusion.args[i], b) = terms[i]

\* the meta-variables of a pattern
RECURSIVE MetaVarsOf(_)
MetaVarsOf(p) ==
    (IF p.metaVariableId # "" THEN {p.metaVariableId} ELSE {})
    \cup UNION { MetaVarsOf(p.args[i]) : i \in 1..Len(p.args) }

\* the premise p, instantiated by b where the conclusion binds its
\* meta-variables, has a derivation one level down
PremiseDerivable(rule, p, b) ==
    /\ \A i \in 1..Len(p.args) :
          MetaVarsOf(p.args[i]) \subseteq
              UNION { MetaVarsOf(rule.conclusion.args[k]) : k \in 1..Len(rule.conclusion.args) }
    /\ buildDerivation(drvIn.rules, p.judgmentId,
                       [i \in 1..Len(p.args) |-> substitutePattern(p.args[i], b)], 1) # Null

\* the rule is complete, concludes the queried judgment, matches the terms
\* under b and all its premises are derivable
Qualifies(rule, b) ==
    /\ isRuleComplete(rule)
    /\ rule.conclusion.judgmentId = drvIn.judgmentId
    /\ Instantiates(rule, drvIn.terms, b)
    /\ \A k \in 1..Len(rule.premises) : PremiseDerivable(rule, rule.premises[k], b)

\* the node C10 asks for when rule qualifies under b
ExpectedNode(rule, b) ==
    [ruleName |-> rule.name,
     ruleId |-> rule.id,
     conclusion |-> [judgmentId |-> drvIn.judgmentId, terms |-> drvIn.terms],
     premises |-> [k \in 1..Len(rule.premises) |->
                     buildDerivation(drvIn.rules, rule.premises[k].judgmentId,
                         [i \in 1..Len(rule.premises[k].args) |->
                             substitutePattern(rule.premises[k].args[i], b)], 1)]]

\* the derivation E-Succ(O-Succ(E-Zero)) of even(S(S(Z)))
EvenTwoDerivation ==
    [ruleName |-> "E-Succ", ruleId |-> "r2",
     conclusion |-> [judgmentId |-> "even", terms |-> << Peano(2) >>],
     premises |-> <<
        [ruleName |-> "O-Succ", ruleId |-> "r3",
         conclusion |-> [judgmentId |-> "odd", terms |-> << Peano(1) >>],
         premises |-> <<
            [ruleName |-> "E-Zero", ruleId |-> "r1",
             conclusion |-> [judgmentId |-> "even", terms |-> << Peano(0) >>],
             premises |-> <<>>] >>] >>]

\* C10: buildDerivation(j, ts) returns the node of the first rule in
\* registry order that is complete, concludes j, matches ts with consistent
\* bindings and has all its instantiated premises derivable, carrying that
\* rule's name and id, the conclusion (j, ts) and the premise derivations in
\* premise order; it fails when no rule qualifies.  With the Peano rules
\* even(S(S(Z))) yields E-Succ(O-Succ(E-Zero)) and even(S(Z)) fails.
C10_FirstQualifyingRule ==
    drvOut # Null =>
        LET rs == drvIn.rules
            Q(i) == \E b \in Assignments(drvIn.terms) : Qualifies(rs[i], b)
        IN  /\ IF \E i \in 1..Len(rs) : Q(i)
               THEN LET first == CHOOSE i \in 1..Len(rs) : Q(i) /\ \A j \in 1..(i-1) : ~Q(j)
                    IN  \A b \in Assignments(drvIn.terms) :
                            Qualifies(rs[first], b) =>
                                drvOut.derivation = ExpectedNode(rs[first], b)
               ELSE drvOut.derivation = Null
            /\ (drvIn.rules = PeanoRules /\ drvIn.judgmentId = "even") =>
                  /\ drvIn.terms = << Peano(2) >> => drvOut.derivation = EvenTwoDerivation
                  /\ drvIn.terms = << Peano(1) >> => drvOut.derivation = Null

\* two rules of the registry qualify for the query, and the derivation
\* returned is the earlier one's, with a premise derived below it
C10_Witness ==
    /\ drvOut # Null /\ drvOut.derivation # Null
    /\ Len(drvOut.derivation.premises) >= 1
    /\ \E i \in 1..Len(drvIn.rules) : \E j \in 1..Len(drvIn.rules) :
          /\ i < j
          /\ drvIn.rules[i].id = drvOut.derivation.ruleId
          /\ \E b \in Assignments(drvIn.terms) : Qualifies(drvIn.rules[i], b)
          /\ \E b \in Assignments(drvIn.terms) : Qualifies(drvIn.rules[j], b)


(***************************************************************************)
(* The depth limit of the backward search                                  *)
(***************************************************************************)
\* the queries are S^k(Z) for k up to MaxPeano, so that derivations of
\* DepthLimit, DepthLimit + 1 and DepthLimit + 2 levels occur
MaxPeano == 12
DepthRegistrySize == 3

\* rules whose derivations are chains: the search meets one premise a level
ChainPool == { EZero, ESucc, OSucc, ESkip }

DepthRegistries ==
    { PeanoRules } \cup
    { rs \in [1..DepthRegistrySize -> ChainPool] :
        \A i \in 1..DepthRegistrySize : \A j \in 1..DepthRegistrySize :
            rs[i] = rs[j] => i = j }

DepthInputs ==
    [rules : DepthRegistries, judgmentId : {"even", "odd"},
     terms : { << Peano(k) >> : k \in 0..MaxPeano }]

DepthInit ==
    /\ drvIn \in DepthInputs
    /\ drvOut = Null

InitDepthSpec ==
    /\ DepthInit
    /\ ProofInit
    /\ RestIdle
    /\ arithIn = Null /\ arithOut = Null
    /\ evalIn = Null /\ evalStack = <<>> /\ evalStatus = "idle"
    /\ sdIn = Null /\ sdOut = Null

NextDepth == Derive /\ UNCHANGED <<proofVars, arithVars, evalVars, sdVars, restVars>>

SpecDepth == InitDepthSpec /\ [][NextDepth]_vars

\* the meta-variables of the conclusion of a rule
ConclusionVars(rule) ==
    UNION { MetaVarsOf(rule.conclusion.args[k]) : k \in 1..Len(rule.conclusion.args) }

\* the judgment instance (j, terms) has a derivation of at most h levels of
\* rule applications: some complete rule concludes it under bindings of its
\* conclusion's meta-variables, and every premise, instantiated by them, has
\* a derivation of at most h - 1 levels
RECURSIVE DerivableWithin(_, _, _, _)
DerivableWithin(rules, j, terms, h) ==
    /\ h >= 1
    /\ \E i \in 1..Len(rules) :
          LET rule == rules[i] IN
          /\ isRuleComplete(rule)
          /\ rule.conclusion.judgmentId = j
          /\ \E b \in [ConclusionVars(rule) ->
                          UNION { Subterms(terms[k]) : k \in 1..Len(terms) }] :
                /\ Instantiates(rule, terms, b)
                /\ \A k \in 1..Len(rule.premises) :
                      LET p == rule.premises[k]
                          ts == [q \in 1..Len(p.args) |-> substitutePattern(p.args[q], b)]
                      IN  /\ \A q \in 1..Len(ts) : ts[q] # Null
                          /\ DerivableWithin(rules, p.judgmentId, ts, h - 1)

\* C11: with D = DepthLimit, an instance whose only derivations need D + 1
\* levels of rule applications is reported as a failure, and every instance
\* that has a derivation of at most D levels is found.
C11_DepthLimitRespected ==
    drvOut # Null =>
        /\ ( /\ DerivableWithin(drvIn.rules, drvIn.judgmentId, drvIn.terms, DepthLimit + 1)
             /\ ~DerivableWithin(drvIn.rules, drvIn.judgmentId, drvIn.terms, DepthLimit) )
              => drvOut.derivation = Null
        /\ DerivableWithin(drvIn.rules, drvIn.judgmentId, drvIn.terms, DepthLimit)
              => drvOut.derivation # Null

\* what the search does: it finds exactly the instances that have a
\* derivation of at most DepthLimit + 1 levels
C11_FoundWithinOneMoreLevel ==
    drvOut # Null =>
        ( drvOut.derivation # Null <=>
            DerivableWithin(drvIn.rules, drvIn.judgmentId, drvIn.terms, DepthLimit + 1) )

\* an instance that needs DepthLimit + 2 levels was searched for and not found
C11_BeyondLimitState ==
    /\ drvOut # Null /\ drvOut.derivation = Null
    /\ DerivableWithin(drvIn.rules, drvIn.judgmentId, drvIn.terms, DepthLimit + 2)


(***************************************************************************)
(* matchPattern on its own                                                 *)
(***************************************************************************)
\* the number of meta-variable names the patterns draw from
MatchVarCount == 2
MatchVarNames == << "x", "y", "z", "w" >>
MatchVarInputs == { MatchVarNames[i] : i \in 1..Min2(MatchVarCount, Len(MatchVarNames)) }

\* terms of up to two constructor levels over Z, S, Pair and the atom a
MatchTermLeaves == { Term("Z", <<>>), AtomTerm("a") }
MatchTermsOver(ts) ==
    { Term("S", << t >>) : t \in ts } \cup { Term("Pair", << t, u >>) : t \in ts, u \in ts }
MatchTermInputs ==
    MatchTermLeaves \cup MatchTermsOver(MatchTermLeaves)
    \cup MatchTermsOver(MatchTermLeaves \cup MatchTermsOver(MatchTermLeaves))

\* patterns of up to two constructor levels: meta-variables, the empty hole,
\* Z, an S with no argument, S(.) and Pair(., .)
MatchPatternLeaves ==
    { MV(x) : x \in MatchVarInputs } \cup { Pat("", <<>>), Pat("Z", <<>>), Pat("S", <<>>) }
MatchPatternsOver(ps) ==
    { Pat("S", << p >>) : p \in ps } \cup { Pat("Pair", << p, q >>) : p \in ps, q \in ps }
MatchPatternInputs ==
    MatchPatternLeaves \cup MatchPatternsOver(MatchPatternLeaves)
    \cup MatchPatternsOver(MatchPatternLeaves \cup MatchPatternsOver(MatchPatternLeaves))

MatchInit ==
    /\ matchIn \in [term : MatchTermInputs, pattern : MatchPatternInputs]
    /\ matchOut = Null

\* matchPattern(term, pattern) is called
Match ==
    /\ matchOut = Null
    /\ matchOut' = [bindings |-> matchPattern(matchIn.term, matchIn.pattern)]
    /\ UNCHANGED matchIn

NextMatch ==
    Match /\ UNCHANGED <<proofVars, arithVars, evalVars, sdVars, drvVars, storeVars, tacVars,
                       fnVars>>

InitMatchSpec ==
    /\ MatchInit
    /\ ProofInit
    /\ StoreIdle /\ TacIdle /\ FnIdle
    /\ arithIn = Null /\ arithOut = Null
    /\ evalIn = Null /\ evalStack = <<>> /\ evalStatus = "idle"
    /\ sdIn = Null /\ sdOut = Null
    /\ drvIn = Null /\ drvOut = Null

SpecMatch == InitMatchSpec /\ [][NextMatch]_vars

\* structural equality of terms, the ids of the source left out
RECURSIVE SameStructure(_, _)
SameStructure(t, u) ==
    IF t.isVariable \/ u.isVariable
    THEN t.isVariable /\ u.isVariable /\ t.variableName = u.variableName
    ELSE /\ t.constructorId = u.constructorId
         /\ Len(t.args) = Len(u.args)
         /\ \A i \in 1..Len(t.args) : SameStructure(t.args[i], u.args[i])

\* the pattern p, its meta-variables read by b, denotes the term t: no hole
\* is met, constructor ids and arities agree, and every occurrence of a
\* meta-variable stands over a subterm structurally equal to its binding
RECURSIVE Denotes(_, _, _)
Denotes(p, b, t) ==
    IF p.metaVariableId # "" THEN SameStructure(b[p.metaVariableId], t)
    ELSE IF p.constructorId = "" THEN FALSE
    ELSE /\ ~t.isVariable
         /\ t.constructorId = p.constructorId
         /\ Len(t.args) = Len(p.args)
         /\ \A i \in 1..Len(p.args) : Denotes(p.args[i], b, t.args[i])

\* C12: matchPattern(t, p) succeeds exactly when some binding of the
\* meta-variables of p to subterms of t makes p denote t (repeated
\* meta-variables over structurally equal subterms), and then returns that
\* binding of every meta-variable of p; it fails on an atom against a
\* constructor pattern, on differing constructor ids or arities and on an
\* empty hole.  Pair(x, x) fails against Pair(Z, S(Z)) and matches
\* Pair(Z, Z) with x bound to Z.
C12_MatchPatternContract ==
    matchOut # Null =>
        LET t == matchIn.term
            p == matchIn.pattern
            r == matchOut.bindings
            candidates == { b \in [MetaVarsOf(p) -> Subterms(t)] : Denotes(p, b, t) }
            PairXX == Pat("Pair", << MV("x"), MV("x") >>)
        IN  /\ r # Null <=> candidates # {}
            /\ r # Null => /\ DOMAIN r.map = MetaVarsOf(p)
                           /\ Denotes(p, r.map, t)
                           /\ \A x \in DOMAIN r.map : r.map[x] \in Subterms(t)
            /\ (p.metaVariableId = "" /\ t.isVariable) => r = Null
            /\ (p.metaVariableId = "" /\ ~t.isVariable /\
                    (p.constructorId # t.constructorId \/ Len(p.args) # Len(t.args)))
                  => r = Null
            /\ (p.metaVariableId = "" /\ p.constructorId = "") => r = Null
            /\ (p = PairXX /\ t = Term("Pair", << Peano(0), Peano(1) >>)) => r = Null
            /\ (p = PairXX /\ t = Term("Pair", << Peano(0), Peano(0) >>))
                  => r = Bindings("x" :> Peano(0))

\* a pattern with a repeated meta-variable under two constructor levels has
\* matched a term
C12_Witness ==
    /\ matchOut # Null /\ matchOut.bindings # Null
    /\ matchIn.pattern = Pat("Pair", << Pat("S", << MV("x") >>), MV("x") >>)
    /\ matchIn.term = Term("Pair", << Peano(1), Peano(0) >>)
    /\ matchOut.bindings.map = ("x" :> Peano(0))


(***************************************************************************)
(* The registry operations of the store.  The store's maps are sequences   *)
(* of records in insertion order; a handler is an operator from the state  *)
(* it reads to the state it sets.  An id drawn from uuidv4 is passed in.   *)
(***************************************************************************)
\* Map.set: a known key keeps its place, a new key goes to the end
MapSet(m, e) ==
    IF \E i \in 1..Len(m) : m[i].id = e.id
    THEN [i \in 1..Len(m) |-> IF m[i].id = e.id THEN e ELSE m[i]]
    ELSE Append(m, e)

\* Map.delete
MapDelete(m, id) == SelectSeq(m, LAMBDA e : e.id # id)

\* the store after construction
EmptyStore ==
    [sorts |-> <<>>, constructors |-> <<>>, judgments |-> <<>>, rules |-> <<>>,
     recursiveFunctions |-> <<>>, properties |-> <<>>, proofs |-> <<>>]

addSort(state, id, kind) ==
    [state EXCEPT !.sorts = MapSet(@, [id |-> id, kind |-> kind])]

deleteSortKeepConstructors(state, id) ==
    [state EXCEPT !.sorts = MapDelete(@, id)]

deleteSort(state, id) ==
    [state EXCEPT !.sorts = MapDelete(@, id),
                  !.constructors = SelectSeq(@, LAMBDA c : c.sortId # id)]

\* createConstructor and addConstructor
addConstructor(state, id, sortId, name, args) ==
    [state EXCEPT !.constructors =
        MapSet(@, [id |-> id, sortId |-> sortId, name |-> name, args |-> args,
                   isTerminal |-> ~\E i \in 1..Len(args) : args[i].sortId = sortId])]

\* updateConstructor without the recalculation of isTerminal
updateConstructorKeepTerminal(state, id, updates) ==
    LET existing == MapGet(state.constructors, id) IN
    IF existing = Null THEN state
    ELSE [state EXCEPT !.constructors = MapSet(@, updates @@ existing)]

updateConstructor(state, id, updates) ==
    LET existing == MapGet(state.constructors, id) IN
    IF existing = Null THEN state
    ELSE LET merged == updates @@ existing
             updated == [merged EXCEPT !.isTerminal =
                            ~\E i \in 1..Len(merged.args) :
                                merged.args[i].sortId = merged.sortId]
         IN  [state EXCEPT !.constructors = MapSet(@, updated)]

deleteConstructor(state, id) ==
    [state EXCEPT !.constructors = MapDelete(@, id)]

\* createJudgment and addJudgment
\* the separators pushed by the loop for (let i = 2; i < argCount; i++)
RECURSIVE CommaSeparators(_, _)
CommaSeparators(i, argCount) ==
    IF i < argCount THEN << ", " >> \o CommaSeparators(i + 1, argCount) ELSE << >>

generateDefaultSeparators(argCount, symbol) ==
    IF argCount = 1 THEN << "", " " \o symbol >>
    ELSE IF argCount = 2 THEN << "", " " \o symbol \o " ", "" >>
    ELSE IF argCount = 3 THEN << "", " " \o symbol \o " ", " : ", "" >>
    ELSE << "", " " \o symbol \o " " >> \o CommaSeparators(2, argCount) \o << "" >>

\* createJudgment with the drawn id; separators = Null when the caller gives none
createJudgment(id, symbol, argSorts, separators) ==
    [id |-> id, symbol |-> symbol,
     separators |-> IF separators # Null THEN separators
                    ELSE generateDefaultSeparators(Len(argSorts), symbol),
     argSorts |-> argSorts]

addJudgment(state, id, symbol, argSorts, separators) ==
    [state EXCEPT !.judgments = MapSet(@, createJudgment(id, symbol, argSorts, separators))]

updateJudgment(state, id, updates) ==
    LET existing == MapGet(state.judgments, id) IN
    IF existing = Null THEN state
    ELSE [state EXCEPT !.judgments = MapSet(@, updates @@ existing)]

\* deleteJudgment without the cascade into the rules
deleteJudgmentKeepRules(state, id) ==
    [state EXCEPT !.judgments = MapDelete(@, id)]

deleteJudgment(state, id) ==
    LET kept == SelectSeq(state.rules, LAMBDA r : r.conclusion.judgmentId # id)
    IN  [state EXCEPT
            !.judgments = MapDelete(@, id),
            !.rules = [i \in 1..Len(kept) |->
                          [kept[i] EXCEPT !.premises =
                              SelectSeq(@, LAMBDA p : p.judgmentId # id)]]]

\* arg.label || `x${i}` for each argument of the constructor
DefaultBoundVars(c) ==
    [i \in 1..Len(c.args) |-> IF c.args[i].label # "" THEN c.args[i].label ELSE XName(i - 1)]

\* the function with the verdict of checkTermination stored in it
WithVerdict(func, verdict) ==
    [terminates |-> verdict.terminates, terminationError |-> verdict.error] @@ func

\* addRecursiveFunc for the return type int, whose default body is 0
addRecursiveFunc(state, id, inputSortId) ==
    LET sortConstructors == SelectSeq(state.constructors, LAMBDA c : c.sortId = inputSortId)
        cases == [i \in 1..Len(sortConstructors) |->
                     [constructorId |-> sortConstructors[i].id,
                      boundVars |-> DefaultBoundVars(sortConstructors[i]),
                      body |-> XInt(0)]]
        func == [id |-> id, inputSortId |-> inputSortId, extraArgs |-> <<>>,
                 cases |-> cases, terminates |-> TRUE, terminationError |-> ""]
    IN  [state EXCEPT !.recursiveFunctions =
            MapSet(@, WithVerdict(func,
                        checkTermination(func, state.constructors,
                                         state.recursiveFunctions)))]

updateRecursiveFunc(state, id, updates) ==
    LET existing == MapGet(state.recursiveFunctions, id) IN
    IF existing = Null THEN state
    ELSE LET updated == updates @@ existing IN
         [state EXCEPT !.recursiveFunctions =
            MapSet(@, IF "cases" \in DOMAIN updates
                      THEN WithVerdict(updated,
                              checkTermination(updated, state.constructors,
                                               state.recursiveFunctions))
                      ELSE updated)]

deleteRecursiveFunc(state, id) ==
    [state EXCEPT !.recursiveFunctions = MapDelete(@, id)]

updateFuncCase(state, funcId, constructorId, caseUpdate) ==
    LET func == MapGet(state.recursiveFunctions, funcId) IN
    IF func = Null THEN state
    ELSE LET newCases == [i \in 1..Len(func.cases) |->
                             IF func.cases[i].constructorId = constructorId
                             THEN caseUpdate @@ func.cases[i] ELSE func.cases[i]]
             updated == [func EXCEPT !.cases = newCases]
         IN  [state EXCEPT !.recursiveFunctions =
                MapSet(@, WithVerdict(updated,
                            checkTermination(updated, state.constructors,
                                             state.recursiveFunctions)))]

recheckTermination(state, funcId) ==
    LET func == MapGet(state.recursiveFunctions, funcId) IN
    IF func = Null THEN state
    ELSE [state EXCEPT !.recursiveFunctions =
            MapSet(@, WithVerdict(func,
                        checkTermination(func, state.constructors,
                                         state.recursiveFunctions)))]

addProperty(state, id, formula) ==
    [state EXCEPT !.properties = MapSet(@, [id |-> id, formula |-> formula])]

deleteProperty(state, id) ==
    [state EXCEPT !.properties = MapDelete(@, id),
                  !.proofs = SelectSeq(@, LAMBDA proof : proof.propertyId # id)]

\* startProof when uuidv4 has been drawn base times; it throws, and sets
\* nothing, when the property is not in the store
startProof(state, propertyId, base) ==
    LET property == MapGet(state.properties, propertyId) IN
    IF property = Null THEN state
    ELSE [state EXCEPT !.proofs = MapSet(@, createProof(property, base))]

deleteProof(state, id) ==
    [state EXCEPT !.proofs = MapDelete(@, id)]


\* initializeWithExamples: the Peano sort, the judgments even and odd with
\* their three rules (as addRule, addPremiseToRule and updateRule leave
\* them) and the function size; nothing when the store has a sort
initializeWithExamples(state) ==
    IF Len(state.sorts) > 0 THEN state
    ELSE LET natArg == [sortId |-> "nat", label |-> "n"]
             s1 == addSort(state, "nat", "inductive")
             s2 == addConstructor(s1, "Z", "nat", "Z", <<>>)
             s3 == addConstructor(s2, "S", "nat", "S", << natArg >>)
             s4 == addJudgment(s3, "even", "even", << natArg >>, Null)
             s5 == addJudgment(s4, "odd", "odd", << natArg >>, Null)
             s6 == [s5 EXCEPT !.rules = @ \o PeanoRules]
             s7 == addRecursiveFunc(s6, "size", "nat")
             s8 == updateFuncCase(s7, "size", "Z", [boundVars |-> <<>>, body |-> XInt(0)])
         IN  updateFuncCase(s8, "size", "S",
                            [boundVars |-> << "n" >>,
                             body |-> XBin("add", XInt(1), XCall("size", XVar("n")))])

\* the number of registry operations in one behaviour
MaxStoreOps == 4

\* the id the next call of uuidv4 returns
NewId == "u" \o ToString(storeIds + 1)

\* the ids a caller can name: those of the map and one it does not hold
IdInputs(m) == { m[i].id : i \in 1..Len(m) } \cup { "none" }

StoreInit ==
    /\ store = EmptyStore
    /\ storeIds = 0
    /\ storeOps = 0
    /\ storeLast = Null

\* one call of a registry operation: the state it sets, the ids it drew
StoreCall(op, arg, newState, drawn) ==
    /\ storeOps < MaxStoreOps
    /\ store' = newState
    /\ storeIds' = storeIds + drawn
    /\ storeOps' = storeOps + 1
    /\ storeLast' = [op |-> op, arg |-> arg]
    /\ UNCHANGED <<proofVars, arithVars, evalVars, sdVars, drvVars, matchVars, tacVars,
                 fnVars>>

InitializeWithExamples ==
    StoreCall("initializeWithExamples", "", initializeWithExamples(store), 0)

AddSort == StoreCall("addSort", NewId, addSort(store, NewId, "inductive"), 1)

DeleteSort(id) == StoreCall("deleteSort", id, deleteSort(store, id), 0)

ConstructorArgInputs(sortId) == { <<>>, << [sortId |-> sortId, label |-> ""] >> }

AddConstructor(sortId, args) ==
    StoreCall("addConstructor", NewId, addConstructor(store, NewId, sortId, "C", args), 1)

ConstructorUpdateInputs ==
    { [args |-> <<>>], [name |-> "D"] }
    \cup { [sortId |-> s] : s \in IdInputs(store.sorts) }

UpdateConstructor(id, updates) ==
    StoreCall("updateConstructor", id, updateConstructor(store, id, updates), 0)

DeleteConstructor(id) ==
    StoreCall("deleteConstructor", id, deleteConstructor(store, id), 0)

DeleteJudgment(id) == StoreCall("deleteJudgment", id, deleteJudgment(store, id), 0)

AddRecursiveFunc(inputSortId) ==
    StoreCall("addRecursiveFunc", NewId, addRecursiveFunc(store, NewId, inputSortId), 1)

FuncUpdateInputs ==
    { [cases |-> <<>>], [extraArgs |-> <<>>] }
    \cup { [inputSortId |-> s] : s \in IdInputs(store.sorts) }

UpdateRecursiveFunc(id, updates) ==
    StoreCall("updateRecursiveFunc", id, updateRecursiveFunc(store, id, updates), 0)

\* a body that is a constant, and one that calls the function on a constant
CaseUpdateInputs(funcId) ==
    { [body |-> XInt(1)], [body |-> XCall(funcId, XInt(0))] }

UpdateFuncCase(funcId, constructorId, caseUpdate) ==
    StoreCall("updateFuncCase", funcId,
              updateFuncCase(store, funcId, constructorId, caseUpdate), 0)

RecheckTermination(funcId) ==
    StoreCall("recheckTermination", funcId, recheckTermination(store, funcId), 0)

DeleteRecursiveFunc(id) ==
    StoreCall("deleteRecursiveFunc", id, deleteRecursiveFunc(store, id), 0)

AddProperty ==
    StoreCall("addProperty", NewId,
              addProperty(store, NewId, FBin("termEq", ECon("Z", <<>>), ECon("Z", <<>>))), 1)

DeleteProperty(id) == StoreCall("deleteProperty", id, deleteProperty(store, id), 0)

\* startProof draws the ids of the root goal and of the proof
StoreStartProof(propertyId) ==
    /\ MapGet(store.properties, propertyId) # Null
    /\ StoreCall("startProof", propertyId, startProof(store, propertyId, storeIds), 2)

DeleteProof(id) == StoreCall("deleteProof", id, deleteProof(store, id), 0)

NextStore ==
    \/ InitializeWithExamples
    \/ AddSort
    \/ \E id \in IdInputs(store.sorts) : DeleteSort(id)
    \/ \E s \in IdInputs(store.sorts) : \E args \in ConstructorArgInputs(s) :
          AddConstructor(s, args)
    \/ \E id \in IdInputs(store.constructors) : \E u \in ConstructorUpdateInputs :
          UpdateConstructor(id, u)
    \/ \E id \in IdInputs(store.constructors) : DeleteConstructor(id)
    \/ \E id \in IdInputs(store.judgments) : DeleteJudgment(id)
    \/ \E s \in IdInputs(store.sorts) : AddRecursiveFunc(s)
    \/ \E id \in IdInputs(store.recursiveFunctions) : \E u \in FuncUpdateInputs :
          UpdateRecursiveFunc(id, u)
    \/ \E f \in IdInputs(store.recursiveFunctions) :
          \E c \in IdInputs(store.constructors) : \E u \in CaseUpdateInputs(f) :
             UpdateFuncCase(f, c, u)
    \/ \E f \in IdInputs(store.recursiveFunctions) : RecheckTermination(f)
    \/ \E f \in IdInputs(store.recursiveFunctions) : DeleteRecursiveFunc(f)
    \/ AddProperty
    \/ \E id \in IdInputs(store.properties) : DeleteProperty(id)
    \/ \E id \in IdInputs(store.properties) : StoreStartProof(id)
    \/ \E i \in 1..Len(store.proofs) : DeleteProof(store.proofs[i].id)

InitStoreSpec ==
    /\ StoreInit
    /\ ProofInit
    /\ arithIn = Null /\ arithOut = Null
    /\ evalIn = Null /\ evalStack = <<>> /\ evalStatus = "idle"
    /\ sdIn = Null /\ sdOut = Null
    /\ drvIn = Null /\ drvOut = Null
    /\ MatchIdle /\ TacIdle /\ FnIdle

SpecStore == InitStoreSpec /\ [][NextStore]_vars


\* the entries of a map, and the fields of the store but the given ones
Entries(m) == { m[i] : i \in 1..Len(m) }
OtherFieldsKept(fields) ==
    \A f \in DOMAIN store \ fields : store'[f] = store[f]

\* the rule without its premises on the judgment id
WithoutPremisesOn(r, id) ==
    [r EXCEPT !.premises = SelectSeq(@, LAMBDA p : p.judgmentId # id)]

DeleteSortCascades ==
    storeLast'.op = "deleteSort" =>
        /\ Entries(store'.sorts) = { s \in Entries(store.sorts) : s.id # storeLast'.arg }
        /\ Entries(store'.constructors) =
              { c \in Entries(store.constructors) : c.sortId # storeLast'.arg }
        /\ OtherFieldsKept({"sorts", "constructors"})

DeleteJudgmentCascades ==
    storeLast'.op = "deleteJudgment" =>
        /\ Entries(store'.judgments) =
              { j \in Entries(store.judgments) : j.id # storeLast'.arg }
        /\ Entries(store'.rules) =
              { WithoutPremisesOn(r, storeLast'.arg) :
                  r \in { r \in Entries(store.rules) :
                            r.conclusion.judgmentId # storeLast'.arg } }
        /\ OtherFieldsKept({"judgments", "rules"})

DeletePropertyCascades ==
    storeLast'.op = "deleteProperty" =>
        /\ Entries(store'.properties) =
              { p \in Entries(store.properties) : p.id # storeLast'.arg }
        /\ Entries(store'.proofs) =
              { p \in Entries(store.proofs) : p.propertyId # storeLast'.arg }
        /\ OtherFieldsKept({"properties", "proofs"})

\* C13: deleteSort(s) removes s and the constructors of s, deleteJudgment(j)
\* removes j, the rules that conclude j and the premises on j of the rules
\* that stay, deleteProperty(p) removes p and the proofs of p; each leaves
\* every other entity of the registry as it was.
C13_DeletionCascades ==
    [][DeleteSortCascades /\ DeleteJudgmentCascades /\ DeletePropertyCascades]_vars

\* the judgment odd has just been deleted from the example registry: O-Succ
\* is gone and E-Succ has lost its premise
C13_Witness ==
    /\ storeLast # Null /\ storeLast.op = "deleteJudgment" /\ storeLast.arg = "odd"
    /\ { r.id : r \in Entries(store.rules) } = { "r1", "r2" }
    /\ \A r \in Entries(store.rules) : r.premises = <<>>
    /\ Len(store.judgments) = 1

\* a property with a started proof has just been deleted with its proof
C13_ProofDeletedState ==
    /\ storeLast # Null /\ storeLast.op = "deleteProperty" /\ storeLast.arg # "none"
    /\ storeIds = 3 /\ store.proofs = <<>> /\ store.properties = <<>>


\* C14: in every state of the registry each function's stored terminates
\* and terminationError are what checkTermination answers for it on the
\* constructors and functions of that state.
C14_TerminationVerdictCurrent ==
    store # Null =>
        \A f \in Entries(store.recursiveFunctions) :
            LET verdict == checkTermination(f, store.constructors, store.recursiveFunctions)
            IN  /\ f.terminates = verdict.terminates
                /\ f.terminationError = verdict.error

\* the part of C14 on deleted constructors: a function that keeps a case on
\* a constructor the registry no longer holds is stored as not terminating,
\* with an error
C14_DeletedConstructorFlagged ==
    store # Null =>
        \A f \in Entries(store.recursiveFunctions) :
            (\E i \in 1..Len(f.cases) :
                MapGet(store.constructors, f.cases[i].constructorId) = Null)
            => (~f.terminates /\ f.terminationError # "")

\* the operations that recheck a function leave its own verdict current
C14_RecheckedFunctionCurrent ==
    (store # Null /\ storeLast # Null /\
        storeLast.op \in {"addRecursiveFunc", "updateFuncCase", "recheckTermination"}) =>
        \A f \in Entries(store.recursiveFunctions) :
            f.id = storeLast.arg =>
                LET verdict == checkTermination(f, store.constructors,
                                                store.recursiveFunctions)
                IN  f.terminates = verdict.terminates /\ f.terminationError = verdict.error

\* C15: in every state of the registry each function has exactly one case
\* for every constructor registered for its principal sort, and no case for
\* any other constructor.
C15_OneCasePerConstructor ==
    store # Null =>
        \A f \in Entries(store.recursiveFunctions) :
            /\ \A c \in Entries(store.constructors) :
                  c.sortId = f.inputSortId =>
                      Cardinality({ i \in 1..Len(f.cases) : f.cases[i].constructorId = c.id }) = 1
            /\ \A i \in 1..Len(f.cases) :
                  \E c \in Entries(store.constructors) :
                      c.id = f.cases[i].constructorId /\ c.sortId = f.inputSortId

\* addRecursiveFunc itself gives the new function one case per constructor
C15_NewFunctionHasAllCases ==
    (store # Null /\ storeLast # Null /\ storeLast.op = "addRecursiveFunc") =>
        \A f \in Entries(store.recursiveFunctions) :
            f.id = storeLast.arg =>
                [i \in 1..Len(f.cases) |-> f.cases[i].constructorId] =
                    LET cs == SelectSeq(store.constructors,
                                        LAMBDA c : c.sortId = f.inputSortId)
                    IN  [i \in 1..Len(cs) |-> cs[i].id]

(***************************************************************************)
(* applyTactic as a function of one goal and one tactic                    *)
(***************************************************************************)
\* ProofContext.variables of the goals submitted
TacVariableInputs ==
    { <<>>,
      << [name |-> "n", sortId |-> "nat"] >>,
      << [name |-> "t", sortId |-> "tree"], [name |-> "n", sortId |-> "nat"] >>,
      << [name |-> "v", sortId |-> "void"] >>,
      << [name |-> "a", sortId |-> "var"], [name |-> "v", sortId |-> "void"] >> }

\* ProofContext.hypotheses of the goals submitted
TacHypothesisInputs ==
    { <<>>,
      << [id |-> 0, name |-> "IH_n",
          formula |-> FBin("numGeq", sizeOf(nNat), EInt(0))] >> }

\* FormulaExpr: the sides of the comparisons submitted
TacExprInputs ==
    { EInt(0), nNat, EVar("v"),
      sizeOf(nNat),
      sizeOf(ECon("Z", <<>>)),
      sizeOf(ECon("S", << nNat >>)),
      sizeOf(sizeOf(ECon("Z", <<>>))),
      EBin("add", EInt(1), sizeOf(nNat)),
      EBin("add", sizeOf(nNat), sizeOf(ECon("Z", <<>>))),
      EBin("mul", EInt(2), sizeOf(ECon("Z", <<>>))),
      EBin("max", sizeOf(ECon("S", << nNat >>)), EInt(0)),
      EBin("min", nNat, sizeOf(ECon("Z", <<>>))),
      ECon("S", << sizeOf(ECon("Z", <<>>)) >>) }

\* Formula: the goals' formulas
TacFormulaInputs ==
    { FBin(k, l, r) : k \in {"numGeq", "numEq", "termEq"},
                      l \in TacExprInputs, r \in TacExprInputs }
    \cup { FTrue,
           FForall("n", "nat", FBin("numGeq", sizeOf(nNat), EInt(0))),
           FBin("and", FTrue, FBin("numGeq", sizeOf(nNat), EInt(0))) }

\* Tactic: the tactics submitted
TacTacticInputs ==
    { [kind |-> k, varName |-> x] : k \in {"induction", "case_analysis"},
                                    x \in {"n", "t", "v", "a", "w"} }
    \cup { [kind |-> "unfold", funcId |-> f, side |-> sd] :
               f \in {"size", "none"}, sd \in {"left", "right"} }
    \cup { [kind |-> "simplify"] }

TacInputs ==
    { [goal |-> Goal(0, vs, hs, f), tactic |-> t] :
          vs \in TacVariableInputs, hs \in TacHypothesisInputs,
          f \in TacFormulaInputs, t \in TacTacticInputs }

TacInit ==
    /\ tacIn \in TacInputs
    /\ tacOut = Null
    /\ lastCall = Null

\* applyTactic(goal, tactic, sorts, constructors, functions)
Tactic ==
    /\ tacOut = Null
    /\ tacOut' = applyTactic(tacIn.goal, tacIn.tactic, 0)
    /\ UNCHANGED <<tacIn, lastCall>>

NextTactic ==
    Tactic /\ UNCHANGED <<proofVars, arithVars, evalVars, sdVars, drvVars,
                          matchVars, storeVars, fnVars>>

InitTacticSpec ==
    /\ TacInit
    /\ ProofInit
    /\ MatchIdle /\ StoreIdle /\ FnIdle
    /\ arithIn = Null /\ arithOut = Null
    /\ evalIn = Null /\ evalStack = <<>> /\ evalStatus = "idle"
    /\ sdIn = Null /\ sdOut = Null
    /\ drvIn = Null /\ drvOut = Null

SpecTactic == InitTacticSpec /\ [][NextTactic]_vars

\* the goals of a result without their ids: formula, variables, hypotheses
GoalShapes(res) ==
    [i \in 1..Len(res.newGoals) |->
        [goal |-> res.newGoals[i].goal,
         variables |-> res.newGoals[i].context.variables]]

\* C16: case_analysis(x) succeeds on a goal exactly when induction(x) succeeds
\* on it (also when x's inductive sort has no constructors), and then gives as
\* many subgoals, in the same order, with the same formulas and variable
\* lists, each with exactly the hypotheses of the parent goal.
C16_CaseAnalysisLikeInduction ==
    (tacOut # Null /\ tacIn.tactic.kind = "case_analysis") =>
        LET ind == applyTactic(tacIn.goal,
                               [kind |-> "induction", varName |-> tacIn.tactic.varName], 0)
        IN  /\ tacOut.success = ind.success
            /\ tacOut.success =>
                  /\ GoalShapes(tacOut) = GoalShapes(ind)
                  /\ \A i \in 1..Len(tacOut.newGoals) :
                        tacOut.newGoals[i].context.hypotheses
                            = tacIn.goal.context.hypotheses

\* C16: whenever induction(x) succeeds, case_analysis(x) succeeds with the
\* same split and the parent's hypotheses.
C16_SameSplitWhenInductionSucceeds ==
    (tacOut # Null /\ tacIn.tactic.kind = "case_analysis") =>
        LET ind == applyTactic(tacIn.goal,
                               [kind |-> "induction", varName |-> tacIn.tactic.varName], 0)
        IN  ind.success =>
              /\ tacOut.success
              /\ GoalShapes(tacOut) = GoalShapes(ind)
              /\ \A i \in 1..Len(tacOut.newGoals) :
                    tacOut.newGoals[i].context.hypotheses
                        = tacIn.goal.context.hypotheses

\* C16: case_analysis was applied to a variable of an inductive sort that has
\* no constructors.
C16_EmptySortState ==
    /\ tacOut # Null
    /\ tacIn.tactic.kind = "case_analysis"
    /\ LET varInfo == FindByName(tacIn.goal.context.variables, tacIn.tactic.varName)
       IN  /\ varInfo # Null
           /\ varInfo.sortId = "void"


\* C17: simplify never fails: on any goal it succeeds, with no goal left or
\* with exactly one goal; when the goal was a comparison, the one goal left is
\* the same comparison with both sides simplified.  This includes goals that
\* are already in simplified form.
C17_SimplifyNeverFails ==
    (tacOut # Null /\ tacIn.tactic.kind = "simplify") =>
        /\ tacOut.success
        /\ Len(tacOut.newGoals) <= 1
        /\ (Len(tacOut.newGoals) = 1 /\ tacIn.goal.goal.kind \in NumCmpKinds) =>
              tacOut.newGoals[1].goal =
                  [kind |-> tacIn.goal.goal.kind,
                   left |-> simplifyExpr(tacIn.goal.goal.left),
                   right |-> simplifyExpr(tacIn.goal.goal.right)]

\* C17: when simplify succeeds it leaves no goal or one goal, and on a
\* comparison whose outcome is undecided that goal has the simplified sides.
C17_SimplifySuccessShape ==
    (tacOut # Null /\ tacIn.tactic.kind = "simplify" /\ tacOut.success) =>
        /\ Len(tacOut.newGoals) <= 1
        /\ (Len(tacOut.newGoals) = 1 /\ tacIn.goal.goal.kind \in NumCmpKinds) =>
              \/ tacOut.newGoals[1].goal = FFalse
              \/ tacOut.newGoals[1].goal =
                    [kind |-> tacIn.goal.goal.kind,
                     left |-> simplifyExpr(tacIn.goal.goal.left),
                     right |-> simplifyExpr(tacIn.goal.goal.right)]

\* C17: simplify was applied to a comparison that simplifyFormula leaves as
\* it is and the arithmetic decider does not close.
C17_AlreadySimplifiedState ==
    /\ tacOut # Null
    /\ tacIn.tactic.kind = "simplify"
    /\ tacIn.goal.goal.kind \in NumCmpKinds
    /\ simplifyExpr(tacIn.goal.goal.left) = tacIn.goal.goal.left
    /\ simplifyExpr(tacIn.goal.goal.right) = tacIn.goal.goal.right
    /\ ~tryLinearArithmetic(tacIn.goal.goal, tacIn.goal.context.hypotheses).solved


\* an application f(C(...)) of func to a constructor that func has a case for
IsUnfoldable(e, func) ==
    /\ e.kind = "funcApp"
    /\ e.funcId = func.id
    /\ e.arg.kind = "constructor"
    /\ \E i \in 1..Len(func.cases) : func.cases[i].constructorId = e.arg.constructorId

\* the immediate subexpressions of a FormulaExpr, left to right
SubExprs(e) ==
    CASE e.kind \in ArithKinds -> << e.left, e.right >>
      [] e.kind = "funcApp" -> << e.arg >>
      [] e.kind = "constructor" -> e.args
      [] OTHER -> <<>>

RECURSIVE ContainsUnfoldable(_, _)
ContainsUnfoldable(e, func) ==
    \/ IsUnfoldable(e, func)
    \/ \E i \in 1..Len(SubExprs(e)) : ContainsUnfoldable(SubExprs(e)[i], func)

\* e with its outermost (leftmost, when there are several) unfoldable
\* application replaced by the instantiated body of its case
RECURSIVE OutermostUnfolded(_, _)
OutermostUnfolded(e, func) ==
    IF IsUnfoldable(e, func) THEN FirstMatchingCase(func.cases, e.arg)
    ELSE LET subs == SubExprs(e)
             k == CHOOSE i \in 1..Len(subs) :
                      /\ ContainsUnfoldable(subs[i], func)
                      /\ \A j \in 1..(i-1) : ~ContainsUnfoldable(subs[j], func)
             new == OutermostUnfolded(subs[k], func)
         IN  CASE e.kind \in ArithKinds ->
                    IF k = 1 THEN [e EXCEPT !.left = new] ELSE [e EXCEPT !.right = new]
               [] e.kind = "funcApp" -> [e EXCEPT !.arg = new]
               [] e.kind = "constructor" -> [e EXCEPT !.args = [e.args EXCEPT ![k] = new]]

\* the side of a comparison that unfold works on
ChosenSide(formula, side) == IF side = "left" THEN formula.left ELSE formula.right

\* C18: on a comparison goal, unfold(f, side) succeeds whenever the chosen
\* side contains an application f(C(...)) with C a constructor that f has a
\* case for, wherever it sits (under mul, max, min, inside the argument of
\* another application of f); it then gives exactly one goal, in which the
\* outermost such application is replaced by the instantiated case body and
\* the other side, the comparison kind and the context are those of the
\* parent; and it fails only when the side has no such application.
C18_UnfoldFindsEveryOccurrence ==
    (/\ tacOut # Null
     /\ tacIn.tactic.kind = "unfold"
     /\ MapGet(recursiveFunctions, tacIn.tactic.funcId) # Null
     /\ tacIn.goal.goal.kind \in NumCmpKinds \cup {"termEq", "termNeq"}) =>
        LET func == MapGet(recursiveFunctions, tacIn.tactic.funcId)
            formula == tacIn.goal.goal
            side == tacIn.tactic.side
            expr == ChosenSide(formula, side)
        IN  IF ContainsUnfoldable(expr, func)
            THEN /\ tacOut.success
                 /\ Len(tacOut.newGoals) = 1
                 /\ tacOut.newGoals[1].context = tacIn.goal.context
                 /\ tacOut.newGoals[1].goal =
                       IF side = "left"
                       THEN [formula EXCEPT !.left = OutermostUnfolded(expr, func)]
                       ELSE [formula EXCEPT !.right = OutermostUnfolded(expr, func)]
            ELSE ~tacOut.success

\* C18: the same statement for the sides in which every application of f
\* to a constructor is reached through add, sub, constructor arguments and
\* applications of other functions only.
RECURSIVE ReachedByUnfold(_, _)
ReachedByUnfold(e, func) ==
    \/ IsUnfoldable(e, func)
    \/ /\ e.kind \in {"add", "sub", "constructor"}
          \/ (e.kind = "funcApp" /\ e.funcId # func.id)
       /\ \E i \in 1..Len(SubExprs(e)) : ReachedByUnfold(SubExprs(e)[i], func)

C18_UnfoldWhereReached ==
    (/\ tacOut # Null
     /\ tacIn.tactic.kind = "unfold"
     /\ MapGet(recursiveFunctions, tacIn.tactic.funcId) # Null
     /\ tacIn.goal.goal.kind \in NumCmpKinds \cup {"termEq", "termNeq"}) =>
        LET func == MapGet(recursiveFunctions, tacIn.tactic.funcId)
            expr == ChosenSide(tacIn.goal.goal, tacIn.tactic.side)
        IN  tacOut.success <=> ReachedByUnfold(expr, func)

\* C18: unfold was applied to a side whose only applications of f to a
\* constructor sit under mul, max or min or inside another application of f.
C18_HiddenOccurrenceState ==
    /\ tacOut # Null
    /\ tacIn.tactic.kind = "unfold"
    /\ MapGet(recursiveFunctions, tacIn.tactic.funcId) # Null
    /\ tacIn.goal.goal.kind \in NumCmpKinds
    /\ LET func == MapGet(recursiveFunctions, tacIn.tactic.funcId)
           expr == ChosenSide(tacIn.goal.goal, tacIn.tactic.side)
       IN  ContainsUnfoldable(expr, func) /\ ~ReachedByUnfold(expr, func)


(***************************************************************************)
(* The proof of  forall n : nat. size(n) >= 0  through the store           *)
(***************************************************************************)
\* the number of proof steps recorded in one behaviour
MaxSizeSteps == 6

\* the tactics submitted while proving sizeNonNeg
SizeTacticInputs ==
    { [kind |-> "intro", varName |-> ""],
      [kind |-> "induction", varName |-> "n"],
      [kind |-> "case_analysis", varName |-> "n"],
      [kind |-> "simplify"],
      [kind |-> "reflexivity"],
      [kind |-> "unfold", funcId |-> "size", side |-> "left"],
      [kind |-> "unfold", funcId |-> "size", side |-> "right"] }

\* store.startProof('sizeNonNeg'), once
SizeStartProof ==
    /\ proofs = <<>>
    /\ StartProof("sizeNonNeg")
    /\ UNCHANGED <<tacIn, tacOut, lastCall>>

\* store.applyTactic(proofId, goalId, tactic), remembered in lastCall
SizeApplyTactic(proofId, goalId, tactic) ==
    /\ proofId \in DOMAIN proofs => Len(proofs[proofId].steps) < MaxSizeSteps
    /\ ApplyTactic(proofId, goalId, tactic)
    /\ lastCall' = [proofId |-> proofId, goalId |-> goalId, tactic |-> tactic]
    /\ UNCHANGED <<tacIn, tacOut>>

NextSizeProof ==
    \/ SizeStartProof
          /\ UNCHANGED <<arithVars, evalVars, sdVars, drvVars, matchVars, storeVars, fnVars>>
    \/ \E pid \in ProofIdInputs : \E gid \in GoalIdInputs(pid) : \E t \in SizeTacticInputs :
          /\ SizeApplyTactic(pid, gid, t)
          /\ UNCHANGED <<arithVars, evalVars, sdVars, drvVars, matchVars, storeVars, fnVars>>

InitSizeProofSpec ==
    /\ ProofInit
    /\ RestIdle
    /\ arithIn = Null /\ arithOut = Null
    /\ evalIn = Null /\ evalStack = <<>> /\ evalStatus = "idle"
    /\ sdIn = Null /\ sdOut = Null
    /\ drvIn = Null /\ drvOut = Null

SpecSizeProof == InitSizeProofSpec /\ [][NextSizeProof]_vars


\* the goals and the hypothesis of the proof of sizeNonNeg
SizeOfZeroGoal == FBin("numGeq", sizeOf(ECon("Z", <<>>)), EInt(0))
SizeOfSuccGoal == FBin("numGeq", sizeOf(ECon("S", << nNat >>)), EInt(0))
SizeHypothesis == FBin("numGeq", sizeOf(nNat), EInt(0))
SizeUnfoldLeft == [kind |-> "unfold", funcId |-> "size", side |-> "left"]

\* the tactics of the steps recorded so far, in order
StepTactics(proof) == [i \in 1..Len(proof.steps) |-> proof.steps[i].tactic.kind]

\* goal g of the proof is case (b): size(S(n)) >= 0 under IH_n : size(n) >= 0
IsSuccCase(g) ==
    /\ g.goal = SizeOfSuccGoal
    /\ Len(g.context.hypotheses) = 1
    /\ g.context.hypotheses[1].name = "IH_n"
    /\ g.context.hypotheses[1].formula = SizeHypothesis

\* this step is the call applyTactic(pid, gid, t) with gid an open goal
Calls(pid, gid, t) ==
    /\ lastCall' # Null
    /\ lastCall' = [proofId |-> pid, goalId |-> gid, tactic |-> t]
    /\ gid \in SeqRange(proofs[pid].openGoals)

\* after intro, induction(n) leaves case (a) and case (b), in this order
InductionGivesTwoCases(pid) ==
    \A gid \in DOMAIN proofs[pid].goals :
        (/\ StepTactics(proofs[pid]) = << "intro" >>
         /\ Calls(pid, gid, [kind |-> "induction", varName |-> "n"])) =>
            /\ result'.success
            /\ LET q == proofs'[pid] IN
               /\ Len(q.openGoals) = 2
               /\ q.goals[q.openGoals[1]].goal = SizeOfZeroGoal
               /\ q.goals[q.openGoals[1]].context.hypotheses = <<>>
               /\ IsSuccCase(q.goals[q.openGoals[2]])

\* simplify closes case (a)
SimplifyClosesZeroCase(pid) ==
    \A gid \in DOMAIN proofs[pid].goals :
        (/\ proofs[pid].goals[gid].goal = SizeOfZeroGoal
         /\ Calls(pid, gid, [kind |-> "simplify"])) =>
            /\ result'.success
            /\ result'.newGoals = <<>>

\* unfold(size, left) applies to case (b) and leaves one goal
UnfoldAppliesToSuccCase(pid) ==
    \A gid \in DOMAIN proofs[pid].goals :
        (/\ IsSuccCase(proofs[pid].goals[gid])
         /\ Calls(pid, gid, SizeUnfoldLeft)) =>
            /\ result'.success
            /\ Len(result'.newGoals) = 1

\* simplify closes the goal that unfold(size, left) made of case (b)
SimplifyClosesUnfoldedSuccCase(pid) ==
    \A gid \in DOMAIN proofs[pid].goals :
        (/\ \E i \in 1..Len(proofs[pid].steps) :
                /\ proofs[pid].steps[i].tactic = SizeUnfoldLeft
                /\ IsSuccCase(proofs[pid].goals[proofs[pid].steps[i].goalId])
                /\ proofs[pid].steps[i].resultingGoals = << gid >>
         /\ Calls(pid, gid, [kind |-> "simplify"])) =>
            /\ result'.success
            /\ result'.newGoals = <<>>

\* once both cases are closed this way the proof is complete
ClosedCasesCompleteProof(pid) ==
    StepTactics(proofs[pid]) = << "intro", "induction", "simplify", "unfold", "simplify" >> =>
        /\ proofs[pid].openGoals = <<>>
        /\ proofs[pid].status = "complete"

\* C19: in the proof of forall n : nat. size(n) >= 0, after intro the tactic
\* induction(n) leaves exactly the goals (a) size(Z) >= 0 and (b)
\* size(S(n)) >= 0 with IH_n : size(n) >= 0, in this order; simplify closes
\* (a); unfold(size, left) and then simplify close (b); after these five
\* steps no goal is open and the proof is complete.
C19_SizeProofScript ==
    [][\A pid \in DOMAIN proofs :
          /\ InductionGivesTwoCases(pid)
          /\ SimplifyClosesZeroCase(pid)
          /\ UnfoldAppliesToSuccCase(pid)
          /\ SimplifyClosesUnfoldedSuccCase(pid)
          /\ ClosedCasesCompleteProof(pid)]_vars

\* C19: the steps of the script other than simplify on case (a).
C19_SizeProofOtherSteps ==
    [][\A pid \in DOMAIN proofs :
          /\ InductionGivesTwoCases(pid)
          /\ UnfoldAppliesToSuccCase(pid)
          /\ SimplifyClosesUnfoldedSuccCase(pid)]_vars

\* C19: the two cases are open and simplify was just called on case (a).
C19_SimplifyOnZeroCaseState ==
    /\ lastCall # Null
    /\ lastCall.tactic = [kind |-> "simplify"]
    /\ lastCall.proofId \in DOMAIN proofs
    /\ StepTactics(proofs[lastCall.proofId]) = << "intro", "induction" >>
    /\ lastCall.goalId = proofs[lastCall.proofId].openGoals[1]

\* C19: the proof of sizeNonNeg is complete.
C19_CompleteState ==
    \E pid \in DOMAIN proofs :
        /\ proofs[pid].status = "complete"
        /\ "induction" \in SeqRange(StepTactics(proofs[pid]))


\* C20: the step log is append-only.  A successful applyTactic call appends
\* exactly one step at the end of the proof's steps: the goal acted on, the
\* tactic, and the ids of the goals produced, in order.  A failed call
\* appends nothing.  Every step logged earlier stays as it is, at its
\* position, whatever the sequence of calls.
C20_StepLogAppendOnly ==
    [][\A pid \in DOMAIN proofs :
          /\ pid \in DOMAIN proofs'
          /\ LET old == proofs[pid].steps
                 new == proofs'[pid].steps
             IN  IF lastCall' # Null /\ lastCall'.proofId = pid /\ result'.success
                 THEN new = Append(old, [goalId |-> lastCall'.goalId,
                                         tactic |-> lastCall'.tactic,
                                         resultingGoals |-> GoalIds(result'.newGoals)])
                 ELSE new = old]_vars

\* C20: a call has just failed on a proof whose log holds three steps, one
\* of which produced two goals.
C20_Witness ==
    /\ lastCall # Null
    /\ lastCall.proofId \in DOMAIN proofs
    /\ result # Null /\ ~result.success
    /\ LET steps == proofs[lastCall.proofId].steps IN
       /\ Len(steps) = 3
       /\ \E i \in 1..3 : Len(steps[i].resultingGoals) = 2


(***************************************************************************)
(* Claims about the step log and the goals, checked under SpecProof        *)
(***************************************************************************)
\* the steps of a proof that list goal id g among their resultingGoals,
\* counted once per listing
ProducersOf(P, g) ==
    { <<i, k>> \in (1..Len(P.steps)) \X (1..nextId) :
          /\ k <= Len(P.steps[i].resultingGoals)
          /\ P.steps[i].resultingGoals[k] = g }

\* C21: in every proof of the store, each goal of the goals mapping other
\* than the root goal is listed in the resultingGoals of exactly one logged
\* step, every id listed in a step's resultingGoals is a key of goals, and
\* every open goal other than the root is one a logged step produced: the
\* goals of a step and its log entry are never seen one without the other.
C21_StepAndGoalsTogether ==
    \A P \in StoredProofs :
        /\ \A g \in DOMAIN P.goals \ {P.rootGoalId} :
              Cardinality(ProducersOf(P, g)) = 1
        /\ ProducersOf(P, P.rootGoalId) = {}
        /\ \A i \in 1..Len(P.steps) :
              SeqRange(P.steps[i].resultingGoals) \subseteq DOMAIN P.goals
        /\ \A g \in SeqRange(P.openGoals) \ {P.rootGoalId} :
              ProducersOf(P, g) # {}

\* C21: a proof holds two logged steps, one of which produced two goals
C21_Witness ==
    \E P \in StoredProofs :
        /\ Len(P.steps) >= 2
        /\ \E i \in 1..Len(P.steps) : Len(P.steps[i].resultingGoals) = 2
        /\ Cardinality(DOMAIN P.goals) >= 4


(***************************************************************************)
(* checkTermination as a function of one function definition               *)
(***************************************************************************)
XConstruct(c, as) == [kind |-> "construct", constructorId |-> c, args |-> as]
XIf(c, t, e)      == [kind |-> "if", cond |-> c, then |-> t, else |-> e]
XSingleton(e)     == [kind |-> "singleton", element |-> e]
XPred(k, l, r)    == [kind |-> k, left |-> l, right |-> r]

\* the constructors of nat: Z, S(n : nat) and P(t : tree, m : nat)
TermConstructors ==
    << [id |-> "Z", sortId |-> "nat", name |-> "Z", args |-> <<>>],
       [id |-> "S", sortId |-> "nat", name |-> "S",
            args |-> << [sortId |-> "nat", label |-> "n"] >>],
       [id |-> "P", sortId |-> "nat", name |-> "P",
            args |-> << [sortId |-> "tree", label |-> "t"],
                        [sortId |-> "nat", label |-> "m"] >>] >>

\* FuncExpr: the case bodies of the function f(x : nat, a : nat) under check
TermBodyInputs ==
    { XInt(0),
      XCall("f", XVar("n")),
      XCall("f", XVar("m")),
      XCall("f", XVar("t")),
      XCall("f", XVar("a")),
      XCall("f", XConstruct("S", << XVar("m") >>)),
      XCallMulti("f", << XVar("m"), XVar("a") >>),
      XCallMulti("f", << XVar("a"), XVar("m") >>),
      XCallMulti("f", << XVar("m"), XCall("f", XVar("t")) >>),
      XCallMulti("f", << >>),
      XCall("g", XCall("f", XVar("m"))),
      XCall("g", XCall("f", XVar("t"))),
      XCallMulti("g", << XVar("a"), XCall("f", XInt(1)) >>),
      XConstruct("S", << XCall("f", XVar("a")) >>),
      XBin("mul", XCall("f", XVar("m")), XCall("f", XVar("t"))),
      XBin("union", XSingleton(XCall("f", XVar("t"))), [kind |-> "empty"]),
      XIf(XPred("eq", XCall("f", XVar("a")), XInt(0)), XInt(0), XInt(1)),
      XIf([kind |-> "not",
           pred |-> [kind |-> "isEmpty", set |-> XSingleton(XCall("f", XVar("m")))]],
          XCall("f", XVar("m")), XInt(1)),
      XIf(XPred("and", XPred("leq", XInt(0), XInt(1)),
                       [kind |-> "in", element |-> XInt(0),
                                       set |-> XSingleton(XCall("f", XVar("t")))]),
          XInt(0), XInt(1)) }

\* RecursiveFunc f with principal sort nat and the extra argument a
TermFunc(bz, bs, bp) ==
    [id |-> "f", inputSortId |-> "nat",
     extraArgs |-> << [name |-> "a", sortId |-> "nat"] >>,
     cases |-> << [constructorId |-> "Z", boundVars |-> <<>>, body |-> bz],
                  [constructorId |-> "S", boundVars |-> << "n" >>, body |-> bs],
                  [constructorId |-> "P", boundVars |-> << "t", "m" >>, body |-> bp] >>]

\* a function the bodies call
TermHelper ==
    [id |-> "g", inputSortId |-> "nat", extraArgs |-> <<>>,
     cases |-> << [constructorId |-> "Z", boundVars |-> <<>>, body |-> XInt(0)] >>]

\* the registry holds f, and g unless deleteRecursiveFunc(g) was called
TermInputsOf(bodies) ==
    { [func |-> TermFunc(bz, bs, bp),
       constructors |-> TermConstructors,
       allFunctions |-> fs \o << TermFunc(bz, bs, bp) >>] :
          bz \in {XInt(0), XCall("f", XVar("n"))}, bs \in bodies, bp \in bodies,
          fs \in { << TermHelper >>, << >> } }

TerminationInit ==
    /\ fnIn \in TermInputsOf(TermBodyInputs)
    /\ fnOut = Null

\* checkTermination(func, constructors, allFunctions)
CheckTermination ==
    /\ fnOut = Null
    /\ fnOut' = checkTermination(fnIn.func, fnIn.constructors, fnIn.allFunctions)
    /\ UNCHANGED fnIn

NextTermination ==
    CheckTermination /\ UNCHANGED <<proofVars, arithVars, evalVars, sdVars, drvVars,
                                    matchVars, storeVars, tacVars>>

InitTerminationSpec ==
    /\ TerminationInit
    /\ ProofInit
    /\ MatchIdle /\ StoreIdle /\ TacIdle
    /\ arithIn = Null /\ arithOut = Null
    /\ evalIn = Null /\ evalStack = <<>> /\ evalStatus = "idle"
    /\ sdIn = Null /\ sdOut = Null
    /\ drvIn = Null /\ drvOut = Null

SpecTermination == InitTerminationSpec /\ [][NextTermination]_vars

\* the bound variables of a case at the positions of the principal sort
StructuralVarsOf(func, funcCase, constructor) ==
    { funcCase.boundVars[k] :
        k \in { k \in 1..Min2(Len(constructor.args), Len(funcCase.boundVars)) :
                  constructor.args[k].sortId = func.inputSortId } }

RECURSIVE RecursionStructural(_, _, _)
\* every recursive call to selfId anywhere in e (an expression or a
\* predicate) is on a variable of sv: the single argument, or the first
\* argument of a multi-argument call
RecursionStructural(e, selfId, sv) ==
    CASE e.kind \in {"int", "empty", "var"} -> TRUE
      [] e.kind = "singleton" -> RecursionStructural(e.element, selfId, sv)
      [] e.kind = "call" ->
            IF e.funcId = selfId
            THEN e.arg.kind = "var" /\ e.arg.name \in sv
            ELSE RecursionStructural(e.arg, selfId, sv)
      [] e.kind = "callMulti" ->
            IF e.funcId = selfId
            THEN /\ Len(e.args) >= 1
                 /\ e.args[1].kind = "var" /\ e.args[1].name \in sv
                 /\ \A i \in 2..Len(e.args) : RecursionStructural(e.args[i], selfId, sv)
            ELSE \A i \in 1..Len(e.args) : RecursionStructural(e.args[i], selfId, sv)
      [] e.kind = "construct" ->
            \A i \in 1..Len(e.args) : RecursionStructural(e.args[i], selfId, sv)
      [] e.kind = "if" ->
            /\ RecursionStructural(e.cond, selfId, sv)
            /\ RecursionStructural(e.then, selfId, sv)
            /\ RecursionStructural(e.else, selfId, sv)
      [] e.kind = "in" ->
            RecursionStructural(e.element, selfId, sv) /\ RecursionStructural(e.set, selfId, sv)
      [] e.kind = "isEmpty" -> RecursionStructural(e.set, selfId, sv)
      [] e.kind = "not" -> RecursionStructural(e.pred, selfId, sv)
      [] OTHER ->
            RecursionStructural(e.left, selfId, sv) /\ RecursionStructural(e.right, selfId, sv)

\* case i of the function checked obeys the rule
CaseStructural(in, i) ==
    LET funcCase == in.func.cases[i]
        constructor == MapGet(in.constructors, funcCase.constructorId)
    IN  RecursionStructural(funcCase.body, in.func.id,
                            StructuralVarsOf(in.func, funcCase, constructor))

\* C22: checkTermination reports terminates = true exactly when in every
\* case every recursive call, wherever it is nested, is on a variable the
\* case's pattern binds at a position of the principal sort; otherwise it
\* reports terminates = false, naming the first case that breaks the rule.
C22_TerminationRule ==
    fnOut # Null =>
        LET bad == { i \in 1..Len(fnIn.func.cases) : ~CaseStructural(fnIn, i) }
        IN  IF bad = {}
            THEN fnOut.terminates
            ELSE /\ ~fnOut.terminates
                 /\ LET first == CHOOSE i \in bad : \A j \in bad : i <= j
                        name == MapGet(fnIn.constructors,
                                       fnIn.func.cases[first].constructorId).name
                    IN  SubSeq(fnOut.error, 1, Len("In case " \o name \o ":"))
                            = "In case " \o name \o ":"


\* C22: the same rule, for the bodies whose calls go to registered functions
C22_RuleWhenCalleesRegistered ==
    (fnOut # Null /\ Len(fnIn.allFunctions) = 2) =>
        LET bad == { i \in 1..Len(fnIn.func.cases) : ~CaseStructural(fnIn, i) }
        IN  IF bad = {}
            THEN fnOut.terminates
            ELSE /\ ~fnOut.terminates
                 /\ LET first == CHOOSE i \in bad : \A j \in bad : i <= j
                        name == MapGet(fnIn.constructors,
                                       fnIn.func.cases[first].constructorId).name
                    IN  SubSeq(fnOut.error, 1, Len("In case " \o name \o ":"))
                            = "In case " \o name \o ":"

\* C22: a case under check has a call to an unregistered function whose
\* argument holds a recursive call that breaks the rule
C22_UncheckedArgumentState ==
    /\ fnOut # Null
    /\ fnIn.allFunctions = << fnIn.func >>
    /\ \E i \in 1..Len(fnIn.func.cases) :
          /\ fnIn.func.cases[i].body.kind = "callMulti"
          /\ fnIn.func.cases[i].body.funcId = "g"
          /\ ~CaseStructural(fnIn, i)


(***************************************************************************)
(* The judgments of the registry                                           *)
(***************************************************************************)
\* the largest number of arguments of the judgments added
MaxJudgmentArgs == 4

\* argSorts of k arguments of sort nat
ArgSortsOf(k) == [i \in 1..k |-> [sortId |-> "nat", label |-> ""]]

\* the separators a caller supplies: none, or a list of its own
SeparatorInputs == { Null, << "", " : ", "" >> }

AddJudgment(argSorts, separators) ==
    StoreCall("addJudgment", NewId,
              addJudgment(store, NewId, "J", argSorts, separators), 1)

JudgmentUpdateInputs ==
    { [symbol |-> "K"], [separators |-> << "", "" >>] }
    \cup { [argSorts |-> ArgSortsOf(k)] : k \in {0, 2} }

UpdateJudgment(id, updates) ==
    StoreCall("updateJudgment", id, updateJudgment(store, id, updates), 0)

NextJudgment ==
    \/ \E k \in 0..MaxJudgmentArgs : \E seps \in SeparatorInputs :
          AddJudgment(ArgSortsOf(k), seps)
    \/ \E id \in IdInputs(store.judgments) : \E u \in JudgmentUpdateInputs :
          UpdateJudgment(id, u)
    \/ \E id \in IdInputs(store.judgments) : DeleteJudgment(id)

InitJudgmentSpec == InitStoreSpec

SpecJudgment == InitJudgmentSpec /\ [][NextJudgment]_vars

\* C23: every judgment of the registry has one separator more than it has
\* arguments, however it was created (default or supplied separators) or
\* updated, for 0, 1, 2, 3 and 4 arguments.
C23_SeparatorCount ==
    \A i \in 1..Len(store.judgments) :
        Len(store.judgments[i].separators) = Len(store.judgments[i].argSorts) + 1

\* C23: a judgment just added with default separators has one separator more
\* than it has arguments when it has at least one argument.
C23_DefaultSeparatorsFromOneArgument ==
    [][(storeLast' # Null /\ storeLast'.op = "addJudgment"
        /\ Len(store'.judgments) = Len(store.judgments) + 1) =>
          LET j == store'.judgments[Len(store'.judgments)] IN
          (j.separators = generateDefaultSeparators(Len(j.argSorts), j.symbol)
           /\ Len(j.argSorts) >= 1)
              => Len(j.separators) = Len(j.argSorts) + 1]_vars

\* C23: a judgment without arguments is in the registry, created with the
\* default separators
C23_NullaryJudgmentState ==
    \E i \in 1..Len(store.judgments) :
        /\ store.judgments[i].argSorts = << >>
        /\ store.judgments[i].separators = generateDefaultSeparators(0, "J")


(***************************************************************************)
(* The constructors of the registry                                        *)
(***************************************************************************)
\* the updates of updateConstructor: new args, a new sort, a new name, or
\* isTerminal set by the caller
TerminalUpdateInputs ==
    { [isTerminal |-> b] : b \in BOOLEAN }
    \cup { [name |-> "D"] }
    \cup { [sortId |-> s] : s \in IdInputs(store.sorts) }
    \cup { [args |-> as] : as \in UNION { ConstructorArgInputs(s) :
                                            s \in IdInputs(store.sorts) } }

NextConstructor ==
    \/ AddSort
    \/ \E s \in IdInputs(store.sorts) : \E t \in IdInputs(store.sorts) :
          \E args \in ConstructorArgInputs(t) : AddConstructor(s, args)
    \/ \E id \in IdInputs(store.constructors) : \E u \in TerminalUpdateInputs :
          UpdateConstructor(id, u)

InitConstructorSpec == InitStoreSpec

SpecConstructor == InitConstructorSpec /\ [][NextConstructor]_vars

\* C24: after any sequence of addConstructor and updateConstructor calls,
\* also updates of args or sortId and updates that set isTerminal, every
\* constructor of the registry is terminal exactly when none of its
\* arguments has the constructor's own sort.
C24_TerminalIffNoRecursiveArg ==
    \A i \in 1..Len(store.constructors) :
        LET c == store.constructors[i] IN
        c.isTerminal <=> (\A k \in 1..Len(c.args) : c.args[k].sortId # c.sortId)

\* C24: the last call was an update that set isTerminal, or moved the
\* constructor to another sort, against what the arguments say
C24_Witness ==
    /\ storeLast # Null
    /\ storeLast.op = "updateConstructor"
    /\ \E i \in 1..Len(store.constructors) :
          LET c == store.constructors[i] IN
          /\ c.id = storeLast.arg
          /\ Len(c.args) = 1
          /\ ~c.isTerminal
    /\ \E i \in 1..Len(store.constructors) :
          LET c == store.constructors[i] IN
          /\ Len(c.args) = 1
          /\ c.isTerminal


(***************************************************************************)
(* simplifyExpr as a function of one expression                            *)
(***************************************************************************)
\* the largest integer literal of the expressions simplified
MaxLiteral == 2

SimplifyLeaves ==
    { EVar("x"), EVar("y"), sizeOf(nNat) } \cup { EInt(c) : c \in -1..MaxLiteral }

SimplifyDepthOne ==
    SimplifyLeaves
    \cup { EBin(k, a, b) : k \in ArithKinds, a \in SimplifyLeaves, b \in SimplifyLeaves }

\* FormulaExpr: operators over operators, and operators under funcApp and
\* constructor nodes
SimplifyInputs ==
    SimplifyDepthOne
    \cup { EBin(k, a, b) : k \in ArithKinds, a \in SimplifyDepthOne, b \in SimplifyLeaves }
    \cup { EBin(k, a, b) : k \in ArithKinds, a \in SimplifyLeaves, b \in SimplifyDepthOne }
    \cup { sizeOf(a) : a \in SimplifyDepthOne }
    \cup { ECon("S", << a >>) : a \in SimplifyDepthOne }

\* fnOut is the sequence of the results of simplifying again and again
SimplifyInit ==
    /\ fnIn \in SimplifyInputs
    /\ fnOut = << >>

\* simplifyExpr(expr), on the input and then on its own result
SimplifyExpr ==
    /\ Len(fnOut) < 2
    /\ fnOut' = Append(fnOut, simplifyExpr(IF fnOut = << >> THEN fnIn ELSE fnOut[Len(fnOut)]))
    /\ UNCHANGED fnIn

NextSimplify ==
    SimplifyExpr /\ UNCHANGED <<proofVars, arithVars, evalVars, sdVars, drvVars,
                                matchVars, storeVars, tacVars>>

InitSimplifySpec ==
    /\ SimplifyInit
    /\ ProofInit
    /\ MatchIdle /\ StoreIdle /\ TacIdle
    /\ arithIn = Null /\ arithOut = Null
    /\ evalIn = Null /\ evalStack = <<>> /\ evalStatus = "idle"
    /\ sdIn = Null /\ sdOut = Null
    /\ drvIn = Null /\ drvOut = Null

SpecSimplify == InitSimplifySpec /\ [][NextSimplify]_vars

\* e is built from integer literals with add, sub, mul, max and min
RECURSIVE IsGroundArith(_)
IsGroundArith(e) ==
    \/ e.kind = "int"
    \/ e.kind \in ArithKinds /\ IsGroundArith(e.left) /\ IsGroundArith(e.right)

\* the integer a ground arithmetic expression denotes
RECURSIVE GroundValue(_)
GroundValue(e) ==
    CASE e.kind = "int" -> e.value
      [] e.kind = "add" -> GroundValue(e.left) + GroundValue(e.right)
      [] e.kind = "sub" -> GroundValue(e.left) - GroundValue(e.right)
      [] e.kind = "mul" -> GroundValue(e.left) * GroundValue(e.right)
      [] e.kind = "max" -> IF GroundValue(e.left) >= GroundValue(e.right)
                           THEN GroundValue(e.left) ELSE GroundValue(e.right)
      [] e.kind = "min" -> IF GroundValue(e.left) <= GroundValue(e.right)
                           THEN GroundValue(e.left) ELSE GroundValue(e.right)

\* C25: simplifyExpr is idempotent, simplifying its own result gives that
\* result again, and it keeps the value: a ground arithmetic expression
\* evaluates to the same integer before and after.
C25_SimplifyIdempotentAndValuePreserving ==
    /\ Len(fnOut) = 2 => fnOut[2] = fnOut[1]
    /\ (Len(fnOut) >= 1 /\ IsGroundArith(fnIn)) =>
          /\ evalExprToNumber(fnIn) = Num(GroundValue(fnIn))
          /\ evalExprToNumber(fnOut[1]) = Num(GroundValue(fnIn))

\* C25: an expression that is not ground was changed by the first pass and
\* has been simplified a second time
C25_Witness ==
    /\ Len(fnOut) = 2
    /\ ~IsGroundArith(fnIn)
    /\ fnOut[1] # fnIn
    /\ fnOut[1].kind \in ArithKinds

\* C25: a ground expression with an operator under an operator has been
\* simplified
C25_GroundState ==
    /\ Len(fnOut) >= 1
    /\ IsGroundArith(fnIn)
    /\ fnIn.kind = "sub" /\ fnIn.left.kind = "mul"


\* ---------------------------------------------------------------------------
\* Evaluation of function-body predicates (App.tsx evaluateExpr /
\* evaluatePredicate).  A FuncValue is a number, a set of atom names or a
\* term; null is the stuck result.  The evaluation below is the one of a
\* body whose function and constructor maps hold no entry for the ids it
\* names, so functions.get / constructors.get answer undefined.
\* ---------------------------------------------------------------------------
NumV(n)  == [kind |-> "num", value |-> n]
SetV(s)  == [kind |-> "set", elems |-> s]
BoolV(b) == [kind |-> "bool", value |-> b]

\* termEnv.get(name) when the term is an atom variable with a name.
AtomNameOf(termEnv, name) ==
    IF name \in DOMAIN termEnv /\ termEnv[name].isVariable /\ termEnv[name].variableName # ""
    THEN termEnv[name].variableName ELSE ""

RECURSIVE evaluateExpr(_, _)
RECURSIVE evaluatePredicate(_, _)

NumericBinary(kind, l, r) ==
    IF l.kind = "num" /\ r.kind = "num"
    THEN NumV(CASE kind = "add" -> l.value + r.value
                [] kind = "sub" -> l.value - r.value
                [] kind = "mul" -> l.value * r.value
                [] kind = "max" -> Max2(l.value, r.value)
                [] kind = "min" -> Min2(l.value, r.value))
    ELSE Null

SetBinary(kind, l, r) ==
    IF l.kind = "set" /\ r.kind = "set"
    THEN SetV(CASE kind = "union"     -> l.elems \cup r.elems
                [] kind = "intersect" -> l.elems \cap r.elems
                [] kind = "diff"      -> l.elems \ r.elems)
    ELSE Null

evaluateExpr(expr, termEnv) ==
    CASE expr.kind = "int"   -> NumV(expr.value)
      [] expr.kind = "empty" -> SetV({})
      [] expr.kind = "var"   -> Null
      [] expr.kind = "singleton" ->
            \* the element never evaluates to a string; only an atom variable
            \* of the environment gives a singleton
            IF expr.element.kind = "var" /\ AtomNameOf(termEnv, expr.element.name) # ""
            THEN SetV({AtomNameOf(termEnv, expr.element.name)})
            ELSE Null
      [] expr.kind \in {"call", "callMulti"} -> Null      \* functions.get(funcId) undefined
      [] expr.kind = "construct"             -> Null      \* constructors.get(id) undefined
      [] expr.kind \in {"add", "sub", "mul", "max", "min"} ->
            NumericBinary(expr.kind, evaluateExpr(expr.left, termEnv),
                                     evaluateExpr(expr.right, termEnv))
      [] expr.kind \in {"union", "intersect", "diff"} ->
            SetBinary(expr.kind, evaluateExpr(expr.left, termEnv),
                                 evaluateExpr(expr.right, termEnv))
      [] expr.kind = "if" ->
            LET condResult == evaluatePredicate(expr.cond, termEnv)
            IN  IF condResult = Null THEN Null
                ELSE IF condResult.value THEN evaluateExpr(expr.then, termEnv)
                ELSE evaluateExpr(expr.else, termEnv)

PredicateEq(l, r) ==
    IF l = Null \/ r = Null THEN Null
    ELSE IF l.kind = "set" /\ r.kind = "set" THEN BoolV(l.elems = r.elems)
    ELSE BoolV(l = r)

PredicateCompare(kind, l, r) ==
    IF l.kind = "num" /\ r.kind = "num"
    THEN BoolV(CASE kind = "lt"  -> l.value < r.value
                 [] kind = "leq" -> l.value <= r.value
                 [] kind = "gt"  -> l.value > r.value
                 [] kind = "geq" -> l.value >= r.value)
    ELSE Null

PredicateAtoms(pred, termEnv) ==
    IF pred.left.kind # "var" \/ pred.right.kind # "var" THEN Null
    ELSE IF ~(pred.left.name \in DOMAIN termEnv /\ termEnv[pred.left.name].isVariable)
            \/ ~(pred.right.name \in DOMAIN termEnv /\ termEnv[pred.right.name].isVariable)
         THEN Null
    ELSE IF pred.kind = "atomEq"
         THEN BoolV(termEnv[pred.left.name].variableName = termEnv[pred.right.name].variableName)
         ELSE BoolV(termEnv[pred.left.name].variableName # termEnv[pred.right.name].variableName)

\* The source's and / or: both operands are evaluated first and a null on
\* either side makes the result null.
PredicateAnd(left, right) ==
    IF left = Null \/ right = Null THEN Null ELSE BoolV(left.value /\ right.value)

PredicateOr(left, right) ==
    IF left = Null \/ right = Null THEN Null ELSE BoolV(left.value \/ right.value)

evaluatePredicate(pred, termEnv) ==
    CASE pred.kind = "eq" ->
            PredicateEq(evaluateExpr(pred.left, termEnv), evaluateExpr(pred.right, termEnv))
      [] pred.kind = "neq" ->
            LET eq == PredicateEq(evaluateExpr(pred.left, termEnv),
                                  evaluateExpr(pred.right, termEnv))
            IN  IF eq = Null THEN Null ELSE BoolV(~eq.value)
      [] pred.kind \in {"lt", "leq", "gt", "geq"} ->
            PredicateCompare(pred.kind, evaluateExpr(pred.left, termEnv),
                                        evaluateExpr(pred.right, termEnv))
      [] pred.kind \in {"atomEq", "atomNeq"} -> PredicateAtoms(pred, termEnv)
      [] pred.kind = "in" ->
            LET set == evaluateExpr(pred.set, termEnv)
            IN  IF set.kind # "set" THEN Null
                ELSE IF pred.element.kind = "var" /\ AtomNameOf(termEnv, pred.element.name) # ""
                     THEN BoolV(AtomNameOf(termEnv, pred.element.name) \in set.elems)
                ELSE Null
      [] pred.kind = "subset" ->
            LET left  == evaluateExpr(pred.left, termEnv)
                right == evaluateExpr(pred.right, termEnv)
            IN  IF left.kind = "set" /\ right.kind = "set"
                THEN BoolV(left.elems \subseteq right.elems) ELSE Null
      [] pred.kind = "isEmpty" ->
            LET set == evaluateExpr(pred.set, termEnv)
            IN  IF set.kind = "set" THEN BoolV(set.elems = {}) ELSE Null
      [] pred.kind = "and" ->
            PredicateAnd(evaluatePredicate(pred.left, termEnv),
                         evaluatePredicate(pred.right, termEnv))
      [] pred.kind = "or" ->
            PredicateOr(evaluatePredicate(pred.left, termEnv),
                        evaluatePredicate(pred.right, termEnv))
      [] pred.kind = "not" ->
            LET inner == evaluatePredicate(pred.pred, termEnv)
            IN  IF inner = Null THEN Null ELSE BoolV(~inner.value)

\* ---- SpecPredicate: evaluatePredicate applied to one predicate --------
XEmpty         == [kind |-> "empty"]
PIn(e, s)      == [kind |-> "in", element |-> e, set |-> s]
PIsEmpty(s)    == [kind |-> "isEmpty", set |-> s]
PNot(p)        == [kind |-> "not", pred |-> p]

\* x and y are bound to the atoms a and b, n to a constructor term.
PredicateEnv ==
    [x |-> [isVariable |-> TRUE,  variableName |-> "a"],
     y |-> [isVariable |-> TRUE,  variableName |-> "b"],
     n |-> [isVariable |-> FALSE, variableName |-> ""]]

PredicateLeaves ==
    { XPred("lt", XInt(0), XInt(1)),
      XPred("geq", XInt(0), XInt(1)),
      XPred("eq", XBin("add", XInt(1), XInt(1)), XInt(2)),
      XPred("neq", XSingleton(XVar("x")), XSingleton(XVar("y"))),
      XPred("atomEq", XVar("x"), XVar("y")),
      XPred("atomNeq", XVar("x"), XVar("n")),
      PIn(XVar("x"), XBin("union", XSingleton(XVar("x")), XEmpty)),
      PIsEmpty(XBin("diff", XSingleton(XVar("y")), XEmpty)),
      XPred("subset", XEmpty, XSingleton(XVar("n"))),
      XPred("lt", XVar("n"), XInt(0)),
      XPred("eq", XCall("g", XVar("n")), XInt(0)),
      XPred("leq", XIf(XPred("gt", XInt(1), XInt(0)), XInt(0), XVar("n")), XInt(0)) }

PredicateInputs ==
    PredicateLeaves
    \cup { PNot(p) : p \in PredicateLeaves }
    \cup { XPred(k, p, q) : k \in {"and", "or"}, p \in PredicateLeaves, q \in PredicateLeaves }
    \cup { PNot(XPred(k, p, q)) : k \in {"and", "or"},
                                   p \in { XPred("lt", XInt(0), XInt(1)), XPred("lt", XVar("n"), XInt(0)) },
                                   q \in { XPred("geq", XInt(0), XInt(1)), XPred("lt", XVar("n"), XInt(0)) } }

PredicateInit == fnIn \in PredicateInputs /\ fnOut = Null

EvaluatePredicate ==
    /\ fnIn \in PredicateInputs
    /\ fnOut = Null
    /\ fnOut' = [kind |-> "evaluated", value |-> evaluatePredicate(fnIn, PredicateEnv)]
    /\ UNCHANGED fnIn

NextPredicate ==
    EvaluatePredicate
    /\ UNCHANGED <<proofVars, arithVars, evalVars, sdVars, drvVars, matchVars, storeVars, tacVars>>

InitPredicateSpec ==
    /\ PredicateInit /\ ProofInit /\ MatchIdle /\ StoreIdle /\ TacIdle
    /\ arithIn = Null /\ arithOut = Null /\ evalIn = Null /\ evalStack = <<>> /\ evalStatus = "idle"
    /\ sdIn = Null /\ sdOut = Null /\ drvIn = Null /\ drvOut = Null

SpecPredicate == InitPredicateSpec /\ [][NextPredicate]_vars

PredicateEvaluated == fnOut # Null /\ fnOut.kind = "evaluated"

\* The value of a predicate of the inputs, evaluated on its own.
ValueOf(p) == evaluatePredicate(p, PredicateEnv)

\* C26: an `and` whose left operand evaluates to false yields false and an
\* `or` whose left operand evaluates to true yields true, whatever the right
\* operand evaluates to (a boolean or the stuck result); `not` of a stuck
\* operand is stuck.
C26_ShortCircuit ==
    PredicateEvaluated =>
        /\ (fnIn.kind = "and" /\ ValueOf(fnIn.left) = BoolV(FALSE)) => fnOut.value = BoolV(FALSE)
        /\ (fnIn.kind = "or"  /\ ValueOf(fnIn.left) = BoolV(TRUE))  => fnOut.value = BoolV(TRUE)
        /\ (fnIn.kind = "not" /\ ValueOf(fnIn.pred) = Null)        => fnOut.value = Null

\* What the code does hold to: with both operands defined `and` / `or` are
\* the boolean connectives, a stuck operand on either side makes the result
\* stuck, and `not` of a stuck operand is stuck.
C26_StrictConnectives ==
    PredicateEvaluated =>
        /\ fnIn.kind \in {"and", "or"} =>
              IF ValueOf(fnIn.left) = Null \/ ValueOf(fnIn.right) = Null
              THEN fnOut.value = Null
              ELSE fnOut.value = BoolV(IF fnIn.kind = "and"
                                       THEN ValueOf(fnIn.left).value /\ ValueOf(fnIn.right).value
                                       ELSE ValueOf(fnIn.left).value \/ ValueOf(fnIn.right).value)
        /\ (fnIn.kind = "not" /\ ValueOf(fnIn.pred) = Null) => fnOut.value = Null

\* An `and` with a false left operand and a stuck right operand was evaluated.
C26_StuckRightOperandState ==
    /\ PredicateEvaluated
    /\ fnIn.kind = "and"
    /\ ValueOf(fnIn.left) = BoolV(FALSE)
    /\ ValueOf(fnIn.right) = Null


\* ---------------------------------------------------------------------------
\* canDerive: the derivability test behind the examples panel
\* (matchesAnyRule), beside buildDerivation which the derivation panel calls
\* (tryDerive).
\* ---------------------------------------------------------------------------
\* canDerive gives up below this depth
CanDeriveLimit == 5

NotDerivable == [derivable |-> FALSE, ruleName |-> ""]

RECURSIVE canDerive(_, _, _, _)
RECURSIVE PremisesSatisfiedFrom(_, _, _, _, _)
RECURSIVE CanDeriveRulesFrom(_, _, _, _, _)

\* the loop over rule.premises from premise k on: premisesSatisfied
PremisesSatisfiedFrom(rules, premises, allBindings, depth, k) ==
    IF k > Len(premises) THEN TRUE
    ELSE LET premise == premises[k]
             premiseTerms == [i \in 1..Len(premise.args) |->
                                 substitutePattern(premise.args[i], allBindings)]
         IN  IF \E i \in 1..Len(premiseTerms) : premiseTerms[i] = Null
             THEN FALSE
             ELSE IF ~canDerive(rules, premise.judgmentId, premiseTerms, depth + 1).derivable
                  THEN FALSE
                  ELSE PremisesSatisfiedFrom(rules, premises, allBindings, depth, k + 1)

\* the loop over rulesForJudgment from rule i on
CanDeriveRulesFrom(rules, rulesForJudgment, terms, depth, i) ==
    IF i > Len(rulesForJudgment) THEN NotDerivable
    ELSE LET rule == rulesForJudgment[i]
             conclusion == rule.conclusion
         IN  IF Len(conclusion.args) # Len(terms)
             THEN CanDeriveRulesFrom(rules, rulesForJudgment, terms, depth, i + 1)
             ELSE LET allBindings == MatchConclusionFrom(terms, conclusion.args, <<>>, 1) IN
                  IF allBindings = Null
                  THEN CanDeriveRulesFrom(rules, rulesForJudgment, terms, depth, i + 1)
                  ELSE IF PremisesSatisfiedFrom(rules, rule.premises, allBindings.map, depth, 1)
                       THEN [derivable |-> TRUE, ruleName |-> rule.name]
                       ELSE CanDeriveRulesFrom(rules, rulesForJudgment, terms, depth, i + 1)

\* { derivable, ruleName? } for the rule registry rules
canDerive(rules, judgmentId, terms, depth) ==
    IF depth > CanDeriveLimit THEN NotDerivable
    ELSE CanDeriveRulesFrom(rules, getRulesForJudgment(rules, judgmentId), terms, depth, 1)

\* ---- SpecCanDerive: both searches on one judgment instance -------------
CanDeriveInputs == DeriveInputs \cup DepthInputs

CanDeriveInit ==
    /\ fnIn \in CanDeriveInputs
    /\ fnOut = [matches |-> Null, derivation |-> Null]

\* matchesAnyRule(terms) on the selected judgment
MatchesAnyRule ==
    /\ fnOut.matches = Null
    /\ fnOut' = [fnOut EXCEPT !.matches = canDerive(fnIn.rules, fnIn.judgmentId, fnIn.terms, 0)]
    /\ UNCHANGED fnIn

\* tryDerive on the same instance
TryDerive ==
    /\ fnOut.derivation = Null
    /\ fnOut' = [fnOut EXCEPT !.derivation =
                    [result |-> buildDerivation(fnIn.rules, fnIn.judgmentId, fnIn.terms, 0)]]
    /\ UNCHANGED fnIn

NextCanDerive ==
    \/ MatchesAnyRule
       /\ UNCHANGED <<proofVars, arithVars, evalVars, sdVars, drvVars, matchVars, storeVars, tacVars>>
    \/ TryDerive
       /\ UNCHANGED <<proofVars, arithVars, evalVars, sdVars, drvVars, matchVars, storeVars, tacVars>>

InitCanDeriveSpec ==
    /\ CanDeriveInit /\ ProofInit /\ MatchIdle /\ StoreIdle /\ TacIdle
    /\ arithIn = Null /\ arithOut = Null /\ evalIn = Null /\ evalStack = <<>> /\ evalStatus = "idle"
    /\ sdIn = Null /\ sdOut = Null /\ drvIn = Null /\ drvOut = Null

SpecCanDerive == InitCanDeriveSpec /\ [][NextCanDerive]_vars

BothSearched == fnOut.matches # Null /\ fnOut.derivation # Null

\* C27: canDerive reports derivable exactly when buildDerivation returns a
\* derivation for the same judgment instance, and the rule name it reports
\* is the rule at the root of that derivation.
C27_CanDeriveAgreesWithBuildDerivation ==
    BothSearched =>
        /\ fnOut.matches.derivable <=> fnOut.derivation.result # Null
        /\ fnOut.matches.derivable => fnOut.matches.ruleName = fnOut.derivation.result.ruleName

\* What the two searches do agree on: an instance canDerive reports
\* derivable has a derivation, and on one-argument instances of at most
\* CanDeriveLimit constructors under the chain rules (each premise one
\* constructor smaller, so no limit is met) the verdicts and the rule names
\* coincide.
C27_AgreementBelowBothLimits ==
    BothSearched =>
        /\ fnOut.matches.derivable => fnOut.derivation.result # Null
        /\ ( /\ fnIn \in DepthInputs
             /\ \E k \in 0..CanDeriveLimit : fnIn.terms = << Peano(k) >> )
           => /\ fnOut.matches.derivable <=> fnOut.derivation.result # Null
              /\ fnOut.matches.derivable
                    => fnOut.matches.ruleName = fnOut.derivation.result.ruleName

\* An instance whose derivation is deeper than canDerive searches and within
\* what buildDerivation searches: even(S^6 Z) under the example rules.
C27_BetweenTheLimitsState ==
    /\ BothSearched
    /\ fnIn.rules = PeanoRules
    /\ fnIn.judgmentId = "even"
    /\ fnIn.terms = << Peano(CanDeriveLimit + 1) >>
    /\ fnOut.derivation.result # Null


\* ---------------------------------------------------------------------------
\* isGoalTrivial and the Solve button of GoalActions
\* ---------------------------------------------------------------------------
\* { trivial, tactic? }: an absent tactic is ""; the message is display text
TrivialBy(tactic) == [trivial |-> TRUE, tactic |-> tactic]
NotTrivial == [trivial |-> FALSE, tactic |-> ""]

isGoalTrivial(formula, hypotheses) ==
    IF formula.kind = "true" THEN TrivialBy("trivial")
    ELSE IF \E i \in 1..Len(hypotheses) : formulaEqual(hypotheses[i].formula, formula)
         THEN TrivialBy("trivial")
    ELSE IF /\ formula.kind \in {"numEq", "numLeq", "numGeq", "termEq"}
            /\ formulaExprEqual(formula.left, formula.right)
         THEN TrivialBy("reflexivity")
    ELSE IF /\ formula.kind \in {"numEq", "numLeq", "numGeq", "termEq"}
            /\ formulaExprEqual(simplifyExpr(formula.left), simplifyExpr(formula.right))
         THEN TrivialBy("simplify")
    ELSE IF simplifyFormula(formula).solved THEN TrivialBy("simplify")
    ELSE IF tryLinearArithmetic(formula, hypotheses).solved THEN TrivialBy("simplify")
    ELSE NotTrivial

\* ---- SpecGoalActions: the Solve button on one goal ---------------------
GoalExprInputs ==
    TacExprInputs \cup { EBin("add", EInt(0), nNat),
                         EBin("mul", EInt(1), sizeOf(nNat)),
                         EBin("add", EInt(1), EInt(1)),
                         ECon("S", << EBin("add", EInt(0), nNat) >>),
                         ECon("S", << nNat >>) }

GoalFormulaInputs ==
    { FBin(k, l, r) : k \in {"numGeq", "numLeq", "numEq", "numGt", "termEq", "termNeq"},
                      l \in GoalExprInputs, r \in GoalExprInputs }
    \cup { FTrue, FFalse,
           FBin("and", FTrue, FBin("numGeq", sizeOf(nNat), EInt(0))),
           FBin("or", FFalse, FBin("numEq", EInt(1), EInt(1))),
           FBin("implies", FFalse, FTrue) }

GoalHypothesisInputs ==
    TacHypothesisInputs
    \cup { << [id |-> 0, name |-> "H",
               formula |-> FBin("termNeq", nNat, ECon("Z", <<>>))] >> }

GoalActionsInputs ==
    { Goal(0, << [name |-> "n", sortId |-> "nat"] >>, hs, f) :
          hs \in GoalHypothesisInputs, f \in GoalFormulaInputs }

GoalActionsInit ==
    /\ fnIn \in GoalActionsInputs
    /\ fnOut = Null

\* GoalActions renders the Solve button when the goal is trivial with a
\* tactic; the click hands that tactic to applyTactic on the goal
SolveGoal ==
    LET trivialCheck == isGoalTrivial(fnIn.goal, fnIn.context.hypotheses) IN
    /\ fnOut = Null
    /\ trivialCheck.trivial /\ trivialCheck.tactic # ""
    /\ fnOut' = [check |-> trivialCheck,
                 result |-> applyTactic(fnIn, [kind |-> trivialCheck.tactic], 0)]
    /\ UNCHANGED fnIn

NextGoalActions ==
    SolveGoal
    /\ UNCHANGED <<proofVars, arithVars, evalVars, sdVars, drvVars, matchVars, storeVars, tacVars>>

InitGoalActionsSpec ==
    /\ GoalActionsInit /\ ProofInit /\ MatchIdle /\ StoreIdle /\ TacIdle
    /\ arithIn = Null /\ arithOut = Null /\ evalIn = Null /\ evalStack = <<>> /\ evalStatus = "idle"
    /\ sdIn = Null /\ sdOut = Null /\ drvIn = Null /\ drvOut = Null

SpecGoalActions == InitGoalActionsSpec /\ [][NextGoalActions]_vars

SolvedWithNoGoals(res) == res.success /\ Len(res.newGoals) = 0

\* C28: whenever isGoalTrivial(goal, hypotheses) returns trivial with a
\* suggested tactic (trivial, reflexivity or simplify), applying that tactic
\* to the goal succeeds with zero new goals, for every goal kind, termEq
\* goals whose sides become equal only after simplification included.
C28_SuggestedTacticCloses ==
    fnOut # Null =>
        /\ fnOut.check.tactic \in {"trivial", "reflexivity", "simplify"}
        /\ SolvedWithNoGoals(fnOut.result)

\* What holds: the suggestion closes the goal unless it is `simplify` on a
\* termEq goal.
C28_ClosesExceptSimplifyOnTermEq ==
    fnOut # Null =>
        /\ fnOut.check.tactic \in {"trivial", "reflexivity", "simplify"}
        /\ (fnIn.goal.kind # "termEq" \/ fnOut.check.tactic # "simplify")
              => SolvedWithNoGoals(fnOut.result)

\* The Solve button was pressed on a termEq goal whose sides are equal only
\* after simplification.
C28_TermEqAfterSimplificationState ==
    /\ fnOut # Null
    /\ fnIn.goal.kind = "termEq"
    /\ fnIn.goal.left # fnIn.goal.right
    /\ simplifyExpr(fnIn.goal.left) = simplifyExpr(fnIn.goal.right)
    /\ fnOut.check.tactic = "simplify"


(***************************************************************************)
(* The life of a goal id, checked under SpecProof                          *)
(***************************************************************************)
\* the positions of goal id g in a sequence of ids
PositionsOf(ids, g) == { i \in 1..Len(ids) : ids[i] = g }

\* C29: a goal id that has left openGoals never re-enters it (the only ids
\* a step adds to openGoals are ids drawn by that step), openGoals never
\* contains the same id twice, and each goal id is the goalId of at most
\* one logged step.
C29_GoalClosedOnce ==
    /\ [](\A P \in StoredProofs :
             /\ \A g \in SeqRange(P.openGoals) :
                   Cardinality(PositionsOf(P.openGoals, g)) = 1
             /\ \A i \in 1..Len(P.steps) : \A j \in 1..Len(P.steps) :
                   P.steps[i].goalId = P.steps[j].goalId => i = j)
    /\ [][\A pid \in DOMAIN proofs :
             /\ pid \in DOMAIN proofs'
             /\ \A g \in 0..nextId :
                   g \notin SeqRange(proofs[pid].openGoals)
                      => g \notin SeqRange(proofs'[pid].openGoals)]_vars

\* C29: a proof has closed a goal by one step and opened two goals by
\* another, and a later call on a closed goal of it was turned away.
C29_Witness ==
    /\ result = Failure("Goal already proved")
    /\ \E P \in StoredProofs :
          /\ Len(P.steps) >= 2
          /\ \E i \in 1..Len(P.steps) : Len(P.steps[i].resultingGoals) = 2
          /\ \E g \in DOMAIN P.goals : g \notin SeqRange(P.openGoals)


(***************************************************************************)
(* Rules, premises and proofs of the registry                              *)
(***************************************************************************)
\* the id uuidv4 returns at its k-th call from now
DrawnId(k) == "u" \o ToString(storeIds + k)

\* addRule when uuidv4 gives ruleId for the rule: one empty pattern per
\* argument of the judgment; it throws, and sets nothing, when the judgment
\* is not in the store
addRule(state, ruleId, name, judgmentId) ==
    LET judgment == MapGet(state.judgments, judgmentId) IN
    IF judgment = Null THEN state
    ELSE [state EXCEPT !.rules =
            MapSet(@, Rule(ruleId, name, judgmentId,
                           [i \in 1..Len(judgment.argSorts) |-> Pat("", <<>>)], <<>>))]

deleteRule(state, id) ==
    [state EXCEPT !.rules = MapDelete(@, id)]

\* addPremiseToRule when uuidv4 gives premiseId for the premise
addPremiseToRule(state, ruleId, judgmentId, premiseId) ==
    LET judgment == MapGet(state.judgments, judgmentId)
        rule == MapGet(state.rules, ruleId)
    IN  IF judgment = Null THEN state
        ELSE IF rule = Null THEN state
        ELSE [state EXCEPT !.rules =
                MapSet(@, [rule EXCEPT !.premises =
                             Append(@, [id |-> premiseId, judgmentId |-> judgmentId,
                                        args |-> [i \in 1..Len(judgment.argSorts) |->
                                                     Pat("", <<>>)]])])]

removePremiseFromRule(state, ruleId, premiseId) ==
    LET rule == MapGet(state.rules, ruleId) IN
    IF rule = Null THEN state
    ELSE [state EXCEPT !.rules =
            MapSet(@, [rule EXCEPT !.premises = SelectSeq(@, LAMBDA p : p.id # premiseId)])]

\* the store's applyTactic when uuidv4 has been drawn base times: the pair
\* of the state it sets and the result it returns
storeTacticOutcome(state, r) ==
    IF r.result.success
    THEN [state |-> [state EXCEPT !.proofs = MapSet(@, r.proof)], result |-> r.result]
    ELSE [state |-> state, result |-> r.result]

storeApplyTactic(state, proofId, goalId, tactic, base) ==
    IF MapGet(state.proofs, proofId) = Null
    THEN [state |-> state, result |-> Failure("Proof not found")]
    ELSE storeTacticOutcome(state, applyTacticToProof(MapGet(state.proofs, proofId),
                                                      goalId, tactic, base))

\* ---- SpecRules: the operations on judgments, rules, properties, proofs --
\* the number of registry operations in one behaviour of SpecRules
MaxRuleOps == 5

\* one call of a registry operation
RulesCall(op, arg, newState, drawn) ==
    /\ storeOps < MaxRuleOps
    /\ store' = newState
    /\ storeIds' = storeIds + drawn
    /\ storeOps' = storeOps + 1
    /\ storeLast' = [op |-> op, arg |-> arg]
    /\ UNCHANGED <<proofVars, arithVars, evalVars, sdVars, drvVars, matchVars, tacVars,
                 fnVars>>

RulesAddJudgment(argSorts) ==
    RulesCall("addJudgment", DrawnId(1),
              addJudgment(store, DrawnId(1), "J", argSorts, Null), 1)

RulesDeleteJudgment(id) ==
    RulesCall("deleteJudgment", id, deleteJudgment(store, id), 0)

\* addRule draws the ids of the conclusion patterns, of the rule and of the
\* conclusion
AddRule(judgmentId) ==
    LET judgment == MapGet(store.judgments, judgmentId)
        n == IF judgment = Null THEN 0 ELSE Len(judgment.argSorts)
    IN  RulesCall("addRule", judgmentId,
                  addRule(store, DrawnId(n + 1), "R", judgmentId),
                  IF judgment = Null THEN 0 ELSE n + 2)

DeleteRule(id) == RulesCall("deleteRule", id, deleteRule(store, id), 0)

\* addPremiseToRule draws the ids of the premise patterns and of the premise
AddPremiseToRule(ruleId, judgmentId) ==
    LET judgment == MapGet(store.judgments, judgmentId)
        n == IF judgment = Null THEN 0 ELSE Len(judgment.argSorts)
    IN  RulesCall("addPremiseToRule", ruleId,
                  addPremiseToRule(store, ruleId, judgmentId, DrawnId(n + 1)),
                  IF judgment = Null THEN 0 ELSE n + 1)

\* the premise ids a caller can name for the rule
PremiseIdInputs(ruleId) ==
    LET rule == MapGet(store.rules, ruleId) IN
    IF rule = Null THEN { "none" }
    ELSE { rule.premises[i].id : i \in 1..Len(rule.premises) } \cup { "none" }

RemovePremiseFromRule(ruleId, premiseId) ==
    RulesCall("removePremiseFromRule", ruleId,
              removePremiseFromRule(store, ruleId, premiseId), 0)

RulesAddProperty ==
    RulesCall("addProperty", DrawnId(1),
              addProperty(store, DrawnId(1),
                          FBin("and", FTrue, FBin("termEq", ECon("Z", <<>>), ECon("Z", <<>>)))),
              1)

RulesDeleteProperty(id) ==
    RulesCall("deleteProperty", id, deleteProperty(store, id), 0)

RulesStartProof(propertyId) ==
    /\ MapGet(store.properties, propertyId) # Null
    /\ RulesCall("startProof", propertyId, startProof(store, propertyId, storeIds), 2)

RulesDeleteProof(id) == RulesCall("deleteProof", id, deleteProof(store, id), 0)

\* tactics on the goals of the property above
RulesTacticInputs == { [kind |-> "split"], [kind |-> "trivial"], [kind |-> "reflexivity"] }

\* the proof and goal ids a caller can name: those held and one never drawn
StoreProofIdInputs == { store.proofs[i].id : i \in 1..Len(store.proofs) } \cup { 0 }
StoreGoalIdInputs(proofId) ==
    LET proof == MapGet(store.proofs, proofId) IN
    IF proof = Null THEN { 0 } ELSE DOMAIN proof.goals \cup { 0 }

\* the call with what storeApplyTactic gives: the ids drawn are those of the
\* new goals of a successful step
RulesTacticCall(proofId, r) ==
    RulesCall("applyTactic", proofId, r.state,
              IF r.result.success THEN r.result.ids ELSE 0)

RulesApplyTactic(proofId, goalId, tactic) ==
    RulesTacticCall(proofId, storeApplyTactic(store, proofId, goalId, tactic, storeIds))

NextRules ==
    \/ \E k \in 0..1 : RulesAddJudgment(ArgSortsOf(k))
    \/ \E j \in IdInputs(store.judgments) : AddRule(j)
    \/ \E r \in IdInputs(store.rules) : \E j \in IdInputs(store.judgments) :
          AddPremiseToRule(r, j)
    \/ \E r \in IdInputs(store.rules) : \E p \in PremiseIdInputs(r) :
          RemovePremiseFromRule(r, p)
    \/ \E r \in IdInputs(store.rules) : DeleteRule(r)
    \/ \E j \in IdInputs(store.judgments) : RulesDeleteJudgment(j)
    \/ RulesAddProperty
    \/ \E p \in IdInputs(store.properties) : RulesStartProof(p)
    \/ \E pid \in StoreProofIdInputs : \E gid \in StoreGoalIdInputs(pid) :
          \E t \in RulesTacticInputs : RulesApplyTactic(pid, gid, t)
    \/ \E pid \in StoreProofIdInputs : RulesDeleteProof(pid)
    \/ \E p \in IdInputs(store.properties) : RulesDeleteProperty(p)

InitRulesSpec == InitStoreSpec

SpecRules == InitRulesSpec /\ [][NextRules]_vars

\* the keys of a map of the store
KeysOf(m) == { m[i].id : i \in 1..Len(m) }

\* C30: after any sequence of addJudgment, addRule, addPremiseToRule,
\* removePremiseFromRule, deleteRule, deleteJudgment, addProperty,
\* startProof, applyTactic, deleteProof and deleteProperty the registry has
\* no dangling reference: the judgmentId of every rule's conclusion and of
\* every premise is a key of judgments, and the propertyId of every proof
\* is a key of properties.
C30_NoDanglingReferences ==
    /\ \A r \in Entries(store.rules) :
          /\ r.conclusion.judgmentId \in KeysOf(store.judgments)
          /\ \A i \in 1..Len(r.premises) :
                r.premises[i].judgmentId \in KeysOf(store.judgments)
    /\ \A p \in Entries(store.proofs) : p.propertyId \in KeysOf(store.properties)

\* C30: a judgment has just been deleted and a rule that concludes another
\* judgment is left in the registry.
C30_Witness ==
    /\ storeLast # Null /\ storeLast.op = "deleteJudgment" /\ storeLast.arg # "none"
    /\ Len(store.judgments) >= 1
    /\ Len(store.rules) >= 1

\* C30: a property has just been deleted while another property keeps a
\* proof with a recorded step.
C30_ProofKeptState ==
    /\ storeLast # Null /\ storeLast.op = "deleteProperty" /\ storeLast.arg # "none"
    /\ \E p \in Entries(store.proofs) : Len(p.steps) >= 1

=============================================================================
